---- MODULE Spec2Model ----
(***************************************************************************)
(* The SQLite backend of the ZRTP cache (zrtp/zrtpCacheSqliteBackend.cpp). *)
(*                                                                         *)
(* The three tables are sequences of rows in rowid order.  A bound value   *)
(* or a stored column is a tagged SQL value (null, int, text, blob).       *)
(* Time stamps are counted in units of 1000 seconds, so that the limits of *)
(* the engine's date functions fit the model checker's integers; the       *)
(* conversions are exact on whole seconds, so the unit changes nothing.    *)
(***************************************************************************)
EXTENDS Integers, Sequences, FiniteSets, TLC

VARIABLES zrtpIdOwn,     \* rows of table zrtpIdOwn
          zrtpIdRemote,  \* rows of table zrtpIdRemote
          op,            \* the call that returned last (sequential callers)
          rc,            \* its return code
          errString,     \* the caller's error buffer
          remZid,        \* the caller's remoteZidRecord_t buffer
          localZid,      \* the caller's localZid buffer (readLocalZid)
          stmt,          \* the statement of prepareReadAllZid
          vstmt,         \* the handle the caller holds for it
          log,           \* the records readNextZidRecord returned on this cursor
          drawn,         \* the values randomZRTP delivered, in order
          thr,           \* the threads of the concurrent callers
          zrtpNames,     \* rows of table zrtpNames
          zidName,       \* the caller's zidNameRecord_t buffer
          clock,         \* what time(nullptr) returns
          schema,        \* the tables the database file holds
          db,            \* the caller's cache handle: "closed", "open", "aborted"
          fault,         \* where the engine rejected the last call, and its code
          past,          \* what the calls so far wrote and returned
          codec,         \* identifiers under b64Encode / b64Decode
          frame          \* the statements of a handler and how often each was finalized

\* the name store, and the database with its engine
nameVars == <<zrtpNames, zidName, clock>>
dbVars == <<schema, db, fault, past>>

vars == <<zrtpIdOwn, zrtpIdRemote, op, rc, errString, remZid, localZid, stmt, vstmt, log, drawn, thr,
          zrtpNames, zidName, clock, schema, db, fault, past, codec, frame>>

(***************************************************************************)
(* Program constants                                                       *)
(***************************************************************************)
SQLITE_OK == 0
CACHE_INCONSISTENT == 1

localZidStandard == 1
localZidWithAccount == 2
defaultAccountString == "_STANDARD_"
NullAccount == "<nullptr>"

IDENTIFIER_LEN == 12
RS_LENGTH == 32

\* strftime(..., 'unixepoch') accepts -210866760000 .. 253402300799 seconds
MinUnixEpoch == -210866760
MaxUnixEpoch == 253402300

(***************************************************************************)
(* Bounds of the model                                                     *)
(***************************************************************************)
MaxRows == 2        \* rows of zrtpIdRemote the keyed operations may create
MaxNameRows == 2    \* rows of zrtpNames
MaxTicks == 1       \* seconds the clock advances
MaxDraws == 2       \* values taken from randomZRTP
MaxCursorRows == 3  \* rows of zrtpIdRemote under the enumeration
NumThreads == 2     \* concurrent callers

(***************************************************************************)
(* Encoding layer: Botan::base64_encode / base64_decode on whole 3-byte    *)
(* groups (an identifier is 12 bytes, so no padding occurs).               *)
(***************************************************************************)
B64Alphabet ==
    <<"A","B","C","D","E","F","G","H","I","J","K","L","M","N","O","P",
      "Q","R","S","T","U","V","W","X","Y","Z","a","b","c","d","e","f",
      "g","h","i","j","k","l","m","n","o","p","q","r","s","t","u","v",
      "w","x","y","z","0","1","2","3","4","5","6","7","8","9","+","/">>

B64Value(c) == (CHOOSE i \in 1..64 : B64Alphabet[i] = c) - 1

\* as if the second character did not take the low bits of the first byte
EncodeGroupMasked(b1, b2, b3) ==
    <<B64Alphabet[(b1 \div 4) + 1],
      B64Alphabet[(b2 \div 16) + 1],
      B64Alphabet[((b2 % 16) * 4 + (b3 \div 64)) + 1],
      B64Alphabet[(b3 % 64) + 1]>>

EncodeGroup(b1, b2, b3) ==
    <<B64Alphabet[(b1 \div 4) + 1],
      B64Alphabet[((b1 % 4) * 16 + (b2 \div 16)) + 1],
      B64Alphabet[((b2 % 16) * 4 + (b3 \div 64)) + 1],
      B64Alphabet[(b3 % 64) + 1]>>

DecodeGroup(c1, c2, c3, c4) ==
    LET v1 == B64Value(c1)
        v2 == B64Value(c2)
        v3 == B64Value(c3)
        v4 == B64Value(c4)
    IN <<v1 * 4 + (v2 \div 16),
         (v2 % 16) * 16 + (v3 \div 4),
         (v3 % 4) * 64 + v4>>

RECURSIVE b64EncodeFrom(_, _)
b64EncodeFrom(binData, i) ==
    IF i + 2 > Len(binData) THEN <<>>
    ELSE EncodeGroup(binData[i], binData[i+1], binData[i+2])
         \o b64EncodeFrom(binData, i + 3)

\* as if the last three bytes were left out
b64EncodeTruncated(binData) == b64EncodeFrom(SubSeq(binData, 1, IDENTIFIER_LEN - 3), 1)

b64Encode(binData) == b64EncodeFrom(SubSeq(binData, 1, IDENTIFIER_LEN), 1)

RECURSIVE b64DecodeFrom(_, _)
b64DecodeFrom(b64Data, i) ==
    IF i + 3 > Len(b64Data) THEN <<>>
    ELSE DecodeGroup(b64Data[i], b64Data[i+1], b64Data[i+2], b64Data[i+3])
         \o b64DecodeFrom(b64Data, i + 4)

b64Decode(b64Data) == b64DecodeFrom(b64Data, 1)

(***************************************************************************)
(* SQL values and the engine's conversions                                 *)
(***************************************************************************)
SqlNull == [k |-> "null", v |-> 0]
SqlInt(n) == [k |-> "int", v |-> n]
SqlText(n) == [k |-> "text", v |-> n]     \* the decimal text of n

\* strftime('%s', x, 'unixepoch'): NULL for NULL and for a time outside the
\* engine's date range, else the seconds as decimal text
StrftimeUnixepoch(x) ==
    IF x.k = "null" THEN SqlNull
    ELSE IF x.v >= MinUnixEpoch /\ x.v <= MaxUnixEpoch THEN SqlText(x.v)
    ELSE SqlNull

\* A secret is a run of bytes, held as its length and a name for its content.
\* sqlite3_bind_blob(stmt, i, p, n) binds the first n bytes at p, and
\* memcpy(dst, sqlite3_column_blob(stmt, c), n) copies the first n bytes.
Blob(content) == [len |-> RS_LENGTH, data |-> content]
BindBlob(secret, n) == IF n = secret.len THEN secret ELSE [len |-> n, data |-> "cut"]
Memcpy(blob, n) == IF n = blob.len THEN blob ELSE [len |-> n, data |-> "cut"]

\* a TIMESTAMP column has NUMERIC affinity: numeric text is stored as integer
NumericAffinity(x) == IF x.k = "text" THEN SqlInt(x.v) ELSE x

\* sqlite3_column_int64: 0 for NULL, the number for an integer or numeric text
ColumnInt64(x) == IF x.k = "null" THEN 0 ELSE x.v

\* ORDER BY: NULL sorts before every integer
SqlLess(x, y) ==
    \/ x.k = "null" /\ y.k # "null"
    \/ x.k # "null" /\ y.k # "null" /\ x.v < y.v

(***************************************************************************)
(* Table zrtpIdRemote: the SQL statements.  b is the statement's bindings, *)
(* b[i] the value bound to ?i.                                             *)
(***************************************************************************)
RemoteKeyMatch(row, remoteZidText, localZidText) ==
    row.remoteZid = remoteZidText /\ row.localZid = localZidText

\* the row insertZrtpIdRemote stores
RemoteRow(b) ==
           [remoteZid     |-> b[1],
            localZid      |-> b[12],
            flags         |-> b[2],
            rs1           |-> b[3],
            rs1LastUsed   |-> NumericAffinity(StrftimeUnixepoch(b[4])),
            rs1TimeToLive |-> NumericAffinity(StrftimeUnixepoch(b[5])),
            rs2           |-> b[6],
            rs2LastUsed   |-> NumericAffinity(StrftimeUnixepoch(b[7])),
            rs2TimeToLive |-> NumericAffinity(StrftimeUnixepoch(b[8])),
            mitmKey       |-> b[9],
            mitmLastUsed  |-> NumericAffinity(StrftimeUnixepoch(b[10])),
            secureSince   |-> NumericAffinity(StrftimeUnixepoch(b[11])),
            preshCounter  |-> b[13]]

\* as if the table had a unique key: the row replaces the one stored for it
insertOrReplaceZrtpIdRemote(table, b) ==
    IF \E i \in 1..Len(table) : RemoteKeyMatch(table[i], b[1], b[12])
    THEN [i \in 1..Len(table) |->
            IF RemoteKeyMatch(table[i], b[1], b[12]) THEN RemoteRow(b) ELSE table[i]]
    ELSE Append(table, RemoteRow(b))

insertZrtpIdRemote(table, b) == Append(table, RemoteRow(b))

updateZrtpIdRemote(table, b) ==
    [i \in 1..Len(table) |->
        IF RemoteKeyMatch(table[i], b[1], b[12])
        THEN [table[i] EXCEPT
                !.flags         = b[2],
                !.rs1           = b[3],
                !.rs1LastUsed   = NumericAffinity(StrftimeUnixepoch(b[4])),
                !.rs1TimeToLive = NumericAffinity(StrftimeUnixepoch(b[5])),
                !.rs2           = b[6],
                !.rs2LastUsed   = NumericAffinity(StrftimeUnixepoch(b[7])),
                !.rs2TimeToLive = NumericAffinity(StrftimeUnixepoch(b[8])),
                !.mitmKey       = b[9],
                !.mitmLastUsed  = NumericAffinity(StrftimeUnixepoch(b[10])),
                !.secureSince   = NumericAffinity(StrftimeUnixepoch(b[11])),
                !.preshCounter  = b[13]]
        ELSE table[i]]

\* the result columns 0..10 of one row of selectZrtpIdRemoteAll
RemoteColumns(row) ==
    [c \in 0..10 |->
        CASE c = 0  -> row.flags
          [] c = 1  -> row.rs1
          [] c = 2  -> StrftimeUnixepoch(row.rs1LastUsed)
          [] c = 3  -> StrftimeUnixepoch(row.rs1TimeToLive)
          [] c = 4  -> row.rs2
          [] c = 5  -> StrftimeUnixepoch(row.rs2LastUsed)
          [] c = 6  -> StrftimeUnixepoch(row.rs2TimeToLive)
          [] c = 7  -> row.mitmKey
          [] c = 8  -> StrftimeUnixepoch(row.mitmLastUsed)
          [] c = 9  -> StrftimeUnixepoch(row.secureSince)
          [] c = 10 -> row.preshCounter]

\* as if the WHERE clause named the remote ZID only
selectZrtpIdRemoteAllAnyLocal(table, b) ==
    LET hits == SelectSeq(table, LAMBDA row : row.remoteZid = b[1])
    IN [i \in 1..Len(hits) |-> RemoteColumns(hits[i])]

selectZrtpIdRemoteAll(table, b) ==
    LET hits == SelectSeq(table, LAMBDA row : RemoteKeyMatch(row, b[1], b[2]))
    IN [i \in 1..Len(hits) |-> RemoteColumns(hits[i])]

(***************************************************************************)
(* Peer-secret store                                                       *)
(***************************************************************************)
\* the bindings of insertRemoteZidRecord and updateRemoteZidRecord
RemoteBindings(b64RemoteZid, b64LocalZid, r) ==
    [i \in 1..13 |->
        CASE i = 1  -> b64RemoteZid
          [] i = 12 -> b64LocalZid
          [] i = 2  -> SqlInt(r.flags)
          [] i = 3  -> BindBlob(r.rs1, RS_LENGTH)
          [] i = 4  -> SqlInt(r.rs1LastUse)
          [] i = 5  -> SqlInt(r.rs1Ttl)
          [] i = 6  -> BindBlob(r.rs2, RS_LENGTH)
          [] i = 7  -> SqlInt(r.rs2LastUse)
          [] i = 8  -> SqlInt(r.rs2Ttl)
          [] i = 9  -> BindBlob(r.mitmKey, RS_LENGTH)
          [] i = 10 -> SqlInt(r.mitmLastUse)
          [] i = 11 -> SqlInt(r.secureSince)
          [] i = 13 -> SqlInt(r.preshCounter)]

\* the assignments of one pass of the result loop
FetchRemoteColumns(buf, cols) ==
    [buf EXCEPT
        !.flags        = ColumnInt64(cols[0]),
        !.rs1          = Memcpy(cols[1], RS_LENGTH),
        !.rs1LastUse   = ColumnInt64(cols[2]),
        !.rs1Ttl       = ColumnInt64(cols[3]),
        !.rs2          = Memcpy(cols[4], RS_LENGTH),
        !.rs2LastUse   = ColumnInt64(cols[5]),
        !.rs2Ttl       = ColumnInt64(cols[6]),
        !.mitmKey      = Memcpy(cols[7], RS_LENGTH),
        !.mitmLastUse  = ColumnInt64(cols[8]),
        !.secureSince  = ColumnInt64(cols[9]),
        !.preshCounter = ColumnInt64(cols[10])]

RECURSIVE FetchAll(_, _, _)
FetchAll(buf, result, i) ==
    IF i > Len(result) THEN buf
    ELSE FetchAll(FetchRemoteColumns(buf, result[i]), result, i + 1)

\* what a call writes to errString: a text with a number, or nothing
NoError == [msg |-> "", n |-> 0]
ErrorText(msg, n) == [msg |-> msg, n |-> n]
Written(err, old) == IF err = NoError THEN old ELSE err

\* insertRemoteZidRecord: the table after the call and the return code
insertRemoteZidRecord(table, remoteZid, localZidArg, r) ==
    [table |-> insertZrtpIdRemote(table,
                   RemoteBindings(b64Encode(remoteZid), b64Encode(localZidArg), r)),
     rc    |-> SQLITE_OK]

updateRemoteZidRecord(table, remoteZid, localZidArg, r) ==
    [table |-> updateZrtpIdRemote(table,
                   RemoteBindings(b64Encode(remoteZid), b64Encode(localZidArg), r)),
     rc    |-> SQLITE_OK]

\* readRemoteZidRecord: the caller's buffer after the call and the return code
readRemoteZidRecord(table, remoteZid, localZidArg, buf) ==
    LET result == selectZrtpIdRemoteAll(table,
                      <<b64Encode(remoteZid), b64Encode(localZidArg)>>)
        found  == Len(result)
        filled == FetchAll(buf, result, 1)
    IN IF found = 0
       THEN [remZid |-> [filled EXCEPT !.flags = 0], rc |-> SQLITE_OK, err |-> NoError]
       ELSE IF found > 1
       THEN [remZid |-> filled, rc |-> CACHE_INCONSISTENT,
             err |-> ErrorText("ZRTP cache inconsistent. More than one remote ZID found", found)]
       ELSE [remZid |-> filled, rc |-> SQLITE_OK, err |-> NoError]

(***************************************************************************)
(* Enumeration cursor                                                      *)
(***************************************************************************)
\* the result columns 0..11 of one row of selectZrtpIdRemoteAllNoCondition
RemoteColumnsNoCondition(row) ==
    [c \in 0..11 |-> IF c = 11 THEN row.remoteZid ELSE RemoteColumns(row)[c]]

\* ORDER BY secureSince DESC: the orders of the rows the engine may produce
\* (the order of rows with equal secureSince is the engine's choice)
DescendingOrders(table) ==
    {p \in Permutations(1..Len(table)) :
        \A i, j \in 1..Len(table) :
            i < j => ~SqlLess(table[p[i]].secureSince, table[p[j]].secureSince)}

\* as if the statement selected DISTINCT keys: one row per (remoteZid, localZid)
selectZrtpIdRemoteAllDistinctKeys(table) ==
    LET first == SelectSeq([i \in 1..Len(table) |-> [row |-> table[i], at |-> i]],
                     LAMBDA e : \A j \in 1..(e.at - 1) :
                         ~RemoteKeyMatch(table[j], e.row.remoteZid, e.row.localZid))
        kept  == [i \in 1..Len(first) |-> first[i].row]
    IN {[i \in 1..Len(kept) |-> RemoteColumnsNoCondition(kept[p[i]])] :
            p \in DescendingOrders(kept)}

\* the results the statement may produce on a table
selectZrtpIdRemoteAllNoCondition(table) ==
    {[i \in 1..Len(table) |-> RemoteColumnsNoCondition(table[p[i]])] :
        p \in DescendingOrders(table)}

prepareReadAllZid == [state |-> "prepared", rows |-> <<>>, base |-> <<>>]

\* what the next sqlite3_step may leave to fetch: the statement with the
\* result rows from the current one on
StepStatement(statement, table) ==
    IF statement.state = "prepared"
    THEN {[state |-> "rows", rows |-> result, base |-> table] :
              result \in selectZrtpIdRemoteAllNoCondition(table)}
    ELSE {statement}

\* readNextZidRecord on a statement stepped to `stepped`: the statement and
\* the caller's buffer after the call, and whether the handle or null returns
readNextZidRecord(stepped, buf) ==
    IF stepped.rows # <<>>
    THEN [stmt    |-> [stepped EXCEPT !.rows = Tail(stepped.rows)],
          remZid  |-> [FetchRemoteColumns(buf, Head(stepped.rows))
                          EXCEPT !.identifier = b64Decode(Head(stepped.rows)[11])],
          handle  |-> TRUE]
    ELSE [stmt    |-> [stepped EXCEPT !.state = "done"],
          remZid  |-> buf,
          handle  |-> FALSE]

(***************************************************************************)
(* Own-identity store                                                      *)
(***************************************************************************)
selectZrtpIdOwn(table, b) ==
    LET hits == SelectSeq(table, LAMBDA row : row.type = b[1] /\ row.accountInfo = b[2])
    IN [i \in 1..Len(hits) |-> [c \in 0..0 |-> hits[i].localZid]]

insertZrtpIdOwn(table, b) ==
    Append(table, [localZid |-> b[1], type |-> b[2], accountInfo |-> b[3]])

\* as if only a null pointer selected the standard account
LocalZidKeyNoStrcmp(accountInfo) ==
    IF accountInfo = NullAccount
    THEN [type |-> localZidStandard, accountInfo |-> defaultAccountString]
    ELSE [type |-> localZidWithAccount, accountInfo |-> accountInfo]

\* the type and the label readLocalZid looks up
LocalZidKey(accountInfo) ==
    IF accountInfo = NullAccount \/ accountInfo = defaultAccountString
    THEN [type |-> localZidStandard, accountInfo |-> defaultAccountString]
    ELSE [type |-> localZidWithAccount, accountInfo |-> accountInfo]

\* the select of readLocalZid: the rows found, and the buffer after the loop
\* (the local ZID of the first row)
LocalZidSelect(table, accountInfo, buf) ==
    LET key    == LocalZidKey(accountInfo)
        result == selectZrtpIdOwn(table, <<SqlInt(key.type), key.accountInfo>>)
    IN [found    |-> Len(result),
        localZid |-> IF Len(result) = 0 THEN buf ELSE b64Decode(result[1][0])]

\* the insert of readLocalZid after a miss; random is what randomZRTP delivers
LocalZidInsert(table, accountInfo, random) ==
    LET key    == LocalZidKey(accountInfo)
        b64zid == b64Encode(random)
        b64len == Len(b64zid)
    IN insertZrtpIdOwn(table,
           <<SubSeq(b64zid, 1, b64len), SqlInt(key.type), key.accountInfo>>)

\* what readLocalZid returns once the rows are counted
LocalZidResult(found) ==
    IF found > 1
    THEN [rc  |-> CACHE_INCONSISTENT,
          err |-> ErrorText("ZRTP cache inconsistent. Found matching local ZID for account", found)]
    ELSE [rc |-> SQLITE_OK, err |-> NoError]

\* as if readLocalZid kept the first of several rows it found and deleted
\* the others
readLocalZidRepairs(table, accountInfo, buf, random) ==
    LET sel == LocalZidSelect(table, accountInfo, buf)
        key == LocalZidKey(accountInfo)
        Mine(row) == row.type = SqlInt(key.type) /\ row.accountInfo = key.accountInfo
        Other(row) == ~Mine(row)
    IN IF sel.found = 0
       THEN [table    |-> LocalZidInsert(table, accountInfo, random),
             localZid |-> random,
             rc       |-> SQLITE_OK,
             err      |-> NoError,
             drew     |-> TRUE]
       ELSE [table    |-> <<SelectSeq(table, Mine)[1]>> \o SelectSeq(table, Other),
             localZid |-> sel.localZid,
             rc       |-> SQLITE_OK,
             err      |-> NoError,
             drew     |-> FALSE]

\* readLocalZid, run without interruption
readLocalZid(table, accountInfo, buf, random) ==
    LET sel == LocalZidSelect(table, accountInfo, buf)
    IN IF sel.found = 0
       THEN [table    |-> LocalZidInsert(table, accountInfo, random),
             localZid |-> random,
             rc       |-> SQLITE_OK,
             err      |-> NoError,
             drew     |-> TRUE]
       ELSE [table    |-> table,
             localZid |-> sel.localZid,
             rc       |-> LocalZidResult(sel.found).rc,
             err      |-> LocalZidResult(sel.found).err,
             drew     |-> FALSE]

(***************************************************************************)
(* Table zrtpNames and the name store.  A name is a pointer to a sequence  *)
(* of characters, or a null pointer.                                       *)
(***************************************************************************)
NullName == [null |-> TRUE, chars |-> <<>>]
Name(chars) == [null |-> FALSE, chars |-> chars]
NoNameText == <<"_", "N", "O", "_", "N", "A", "M", "E", "_">>

NameKeyMatch(row, remoteZidText, localZidText, accountInfo) ==
    /\ row.remoteZid = remoteZidText
    /\ row.localZid = localZidText
    /\ row.accountInfo = accountInfo

\* the row insertZrtpNames stores
NameRow(b) ==
    [remoteZid   |-> b[1],
     localZid    |-> b[2],
     flags       |-> b[4],
     lastUpdate  |-> NumericAffinity(StrftimeUnixepoch(b[5])),
     accountInfo |-> b[3],
     name        |-> b[6]]

insertZrtpNames(table, b) == Append(table, NameRow(b))

\* as if the statement inserted a row when none matched
upsertZrtpNames(table, b) ==
    IF \E i \in 1..Len(table) : NameKeyMatch(table[i], b[1], b[2], b[3])
    THEN [i \in 1..Len(table) |->
            IF NameKeyMatch(table[i], b[1], b[2], b[3])
            THEN [table[i] EXCEPT !.flags = b[4],
                                  !.lastUpdate = NumericAffinity(StrftimeUnixepoch(b[5])),
                                  !.name = b[6]]
            ELSE table[i]]
    ELSE Append(table, NameRow(b))

updateZrtpNames(table, b) ==
    [i \in 1..Len(table) |->
        IF NameKeyMatch(table[i], b[1], b[2], b[3])
        THEN [table[i] EXCEPT !.flags = b[4],
                              !.lastUpdate = NumericAffinity(StrftimeUnixepoch(b[5])),
                              !.name = b[6]]
        ELSE table[i]]

\* the result columns 0..2 of one row of selectZrtpNames
NameColumns(row) ==
    [c \in 0..2 |->
        CASE c = 0 -> row.flags
          [] c = 1 -> StrftimeUnixepoch(row.lastUpdate)
          [] c = 2 -> row.name]

selectZrtpNames(table, b) ==
    LET hits == SelectSeq(table, LAMBDA row : NameKeyMatch(row, b[1], b[2], b[3]))
    IN [i \in 1..Len(hits) |-> NameColumns(hits[i])]

\* as if a null accountInfo were bound as it is
NameAccountAsGiven(accountInfo) == accountInfo

\* a null accountInfo is replaced by the default account string
NameAccount(accountInfo) ==
    IF accountInfo = NullAccount THEN defaultAccountString ELSE accountInfo

\* as if the time stamp were taken from the caller's record
NameBindingsCallerTime(b64RemoteZid, b64LocalZid, accountInfo, z, now) ==
    [i \in 1..6 |->
        CASE i = 1 -> b64RemoteZid
          [] i = 2 -> b64LocalZid
          [] i = 3 -> accountInfo
          [] i = 4 -> SqlInt(z.flags)
          [] i = 5 -> SqlInt(z.lastUpdateTime)
          [] i = 6 -> IF ~z.name.null THEN SqlText(z.name.chars) ELSE SqlText(NoNameText)]

\* as if a null name were bound as it is
NameBindingsNullName(b64RemoteZid, b64LocalZid, accountInfo, z, now) ==
    [i \in 1..6 |->
        CASE i = 1 -> b64RemoteZid
          [] i = 2 -> b64LocalZid
          [] i = 3 -> accountInfo
          [] i = 4 -> SqlInt(z.flags)
          [] i = 5 -> SqlInt(now)
          [] i = 6 -> IF ~z.name.null THEN SqlText(z.name.chars) ELSE SqlNull]

\* the bindings of insertZidNameRecord and updateZidNameRecord; now is what
\* time(nullptr) returns
NameBindings(b64RemoteZid, b64LocalZid, accountInfo, z, now) ==
    [i \in 1..6 |->
        CASE i = 1 -> b64RemoteZid
          [] i = 2 -> b64LocalZid
          [] i = 3 -> accountInfo
          [] i = 4 -> SqlInt(z.flags)
          [] i = 5 -> SqlInt(now)
          [] i = 6 -> IF ~z.name.null THEN SqlText(z.name.chars) ELSE SqlText(NoNameText)]

insertZidNameRecord(table, remoteZid, localZidArg, accountInfo, z, now) ==
    [table |-> insertZrtpNames(table,
                   NameBindings(b64Encode(remoteZid), b64Encode(localZidArg),
                                NameAccount(accountInfo), z, now)),
     rc    |-> SQLITE_OK]

updateZidNameRecord(table, remoteZid, localZidArg, accountInfo, z, now) ==
    [table |-> updateZrtpNames(table,
                   NameBindings(b64Encode(remoteZid), b64Encode(localZidArg),
                                NameAccount(accountInfo), z, now)),
     rc    |-> SQLITE_OK]

\* sqlite3_column_text and sqlite3_column_bytes: the text and its length; a
\* null pointer and 0 for NULL
ColumnText(x) == IF x.k = "null" THEN NullName ELSE Name(x.v)
ColumnBytes(x) == IF x.k = "null" THEN 0 ELSE Len(x.v)

\* strncpy(dst, src, n): the characters the caller then finds at dst
Strncpy(src, n) ==
    IF src.null THEN src
    ELSE IF Len(src.chars) < n THEN src ELSE Name(SubSeq(src.chars, 1, n))

\* the assignments of one pass of the result loop of readZidNameRecord
FetchNameColumns(buf, cols) ==
    [buf EXCEPT !.flags      = ColumnInt64(cols[0]),
                !.name       = Strncpy(ColumnText(cols[2]), buf.nameLength),
                !.nameLength = ColumnBytes(cols[2])]

RECURSIVE FetchAllNames(_, _, _)
FetchAllNames(buf, result, i) ==
    IF i > Len(result) THEN buf
    ELSE FetchAllNames(FetchNameColumns(buf, result[i]), result, i + 1)

\* readZidNameRecord: the caller's buffer after the call and the return code
readZidNameRecord(table, remoteZid, localZidArg, accountInfo, buf) ==
    LET result == selectZrtpNames(table,
                      <<b64Encode(remoteZid), b64Encode(localZidArg),
                        NameAccount(accountInfo)>>)
        found  == Len(result)
        filled == FetchAllNames(buf, result, 1)
    IN IF found = 0
       THEN [zidName |-> [filled EXCEPT !.flags = 0], rc |-> SQLITE_OK, err |-> NoError]
       ELSE IF found > 1
       THEN [zidName |-> filled, rc |-> CACHE_INCONSISTENT,
             err |-> ErrorText("ZRTP name cache inconsistent. More than one ZID name found", found)]
       ELSE [zidName |-> filled, rc |-> SQLITE_OK, err |-> NoError]

(***************************************************************************)
(* The engine under a handler.  Every sqlite3 call under SQLITE_CHK, and   *)
(* the step of a statement, may return an error code; f names the call     *)
(* the engine rejects ("prepare", "bind", "step", or "none") and the code. *)
(***************************************************************************)
SQLITE_ERROR == 1
SQLITE_BUSY == 5
SQLITE_NOMEM == 7

\* the engine rejected nothing
NoFault == [at |-> "none", code |-> SQLITE_OK]

Faults == {[at |-> "prepare", code |-> SQLITE_NOMEM],
           [at |-> "bind", code |-> SQLITE_NOMEM],
           [at |-> "step", code |-> SQLITE_BUSY]}

\* what a statement on table tbl meets: preparing it fails with SQLITE_ERROR
\* when the database has no such table
Met(f, tbl, sch) ==
    IF tbl \in sch THEN f ELSE [at |-> "prepare", code |-> SQLITE_ERROR]

\* as if a rejected step left its changes in the table
HalfDone(before, attempted) == attempted

\* a rejected step: the engine undoes what the statement did
RolledBack(before, attempted) == before

\* ERRMSG: the text written for a rejected call
EngineError(f) == IF f.at = "none" THEN NoError ELSE ErrorText("SQLite3 error", f.code)

\* a writing handler under the engine: res is what it does when nothing is
\* rejected; a rejected prepare or bind skips the step (goto cleanup), a
\* rejected step returns the step's code
EngineWrite(f, table, res) ==
    IF f.at = "none" THEN res
    ELSE IF f.at = "step" THEN [table |-> RolledBack(table, res.table), rc |-> f.code]
    ELSE [table |-> table, rc |-> f.code]

(***************************************************************************)
(* The database file: D.schema is the set of tables it holds, D.own,       *)
(* D.remote and D.names their rows (none for a table it does not hold).    *)
(* rej is the set of statements the engine rejects during a call.          *)
(***************************************************************************)
AllTables == {"zrtpIdOwn", "zrtpIdRemote", "zrtpNames"}

Statements == {"sqlite3_open_v2", "lookupTables", "dropZrtpIdOwn", "createZrtpIdOwn",
               "dropZrtpIdRemote", "dropZrtpNames", "createZrtpIdRemote", "createZrtpNames"}

Rejected(statement) == [at |-> statement, code |-> SQLITE_BUSY]

\* D without the rows of table tbl
Emptied(D, tbl) ==
    [D EXCEPT !.own    = IF tbl = "zrtpIdOwn" THEN <<>> ELSE @,
              !.remote = IF tbl = "zrtpIdRemote" THEN <<>> ELSE @,
              !.names  = IF tbl = "zrtpNames" THEN <<>> ELSE @]

\* as if a dropped table's rows came back with the table
DropTableKeepsRows(D, tbl, rejected) ==
    IF tbl \in D.schema /\ ~rejected
    THEN [D EXCEPT !.schema = @ \ {tbl}]
    ELSE D

\* DROP TABLE tbl, prepared and stepped with the results ignored: nothing
\* happens when the table is missing or the engine rejects the statement
DropTable(D, tbl, rejected) ==
    IF tbl \in D.schema /\ ~rejected
    THEN [Emptied(D, tbl) EXCEPT !.schema = @ \ {tbl}]
    ELSE D

\* as if the statement were CREATE TABLE IF NOT EXISTS
CreateTableIfNotExists(D, tbl, statement, rej) ==
    IF statement \in rej THEN [D |-> D, fault |-> Rejected(statement)]
    ELSE [D |-> [D EXCEPT !.schema = @ \cup {tbl}], fault |-> NoFault]

\* CREATE TABLE tbl: preparing it fails with SQLITE_ERROR when the table
\* exists
CreateTable(D, tbl, statement, rej) ==
    IF tbl \in D.schema THEN [D |-> D, fault |-> [at |-> statement, code |-> SQLITE_ERROR]]
    ELSE IF statement \in rej THEN [D |-> D, fault |-> Rejected(statement)]
    ELSE [D |-> [D EXCEPT !.schema = @ \cup {tbl}], fault |-> NoFault]

\* initializeRemoteTables: the database after the call and what stopped it
initializeRemoteTables(D, rej) ==
    LET D1 == DropTable(D, "zrtpIdRemote", "dropZrtpIdRemote" \in rej)
        D2 == DropTable(D1, "zrtpNames", "dropZrtpNames" \in rej)
        c1 == CreateTable(D2, "zrtpIdRemote", "createZrtpIdRemote", rej)
    IN IF c1.fault.at # "none" THEN c1
       ELSE CreateTable(c1.D, "zrtpNames", "createZrtpNames", rej)

\* as if createTables stopped after zrtpIdOwn
createTablesOwnOnly(D, rej) == CreateTable(D, "zrtpIdOwn", "createZrtpIdOwn", rej)

createTables(D, rej) ==
    LET c0 == CreateTable(D, "zrtpIdOwn", "createZrtpIdOwn", rej)
    IN IF c0.fault.at # "none" THEN c0
       ELSE initializeRemoteTables(c0.D, rej)

\* lookupTables: whether sqlite_master lists a table zrtpIdOwn
lookupTables(D) == "zrtpIdOwn" \in D.schema

clearCache(D, rej) ==
    createTables(DropTable(D, "zrtpIdOwn", "dropZrtpIdOwn" \in rej), rej)

\* as if openCache reset the cache it opens
openCacheClears(D, rej) ==
    IF "sqlite3_open_v2" \in rej
    THEN [D |-> D, fault |-> [at |-> "sqlite3_open_v2", code |-> SQLITE_NOMEM]]
    ELSE clearCache(D, rej)

openCache(D, rej) ==
    IF "sqlite3_open_v2" \in rej
    THEN [D |-> D, fault |-> [at |-> "sqlite3_open_v2", code |-> SQLITE_NOMEM]]
    ELSE IF "lookupTables" \in rej
    THEN [D |-> D, fault |-> Rejected("lookupTables")]
    ELSE IF lookupTables(D) THEN [D |-> D, fault |-> NoFault]
    ELSE createTables(D, rej)

(***************************************************************************)
(* Prepared statements.  A handler holds one variable stmt; fr.stmt is 0   *)
(* for nullptr and k when it points to the k-th statement prepared in the  *)
(* call, and fr.finalized[k] counts the sqlite3_finalize calls on that     *)
(* statement.  stmt is not read before sqlite3_prepare_v2 has written it.  *)
(***************************************************************************)
NoStatement == [stmt |-> 0, finalized |-> <<>>]

\* as if a failing sqlite3_prepare_v2 left the variable as it was
PrepareKeepsHandle(fr, ok) ==
    IF ok
    THEN [stmt |-> Len(fr.finalized) + 1, finalized |-> Append(fr.finalized, 0)]
    ELSE fr

\* sqlite3_prepare_v2(db, sql, n, &stmt, nullptr): stmt points to the new
\* statement, or is nullptr when the call fails
Prepare(fr, ok) ==
    IF ok
    THEN [stmt |-> Len(fr.finalized) + 1, finalized |-> Append(fr.finalized, 0)]
    ELSE [fr EXCEPT !.stmt = 0]

\* sqlite3_finalize(stmt): nothing happens for nullptr
Finalize(fr) ==
    IF fr.stmt = 0 THEN fr ELSE [fr EXCEPT !.finalized[fr.stmt] = @ + 1]

\* where the engine can reject a statement of a keyed handler
Stages == {"none", "prepare", "bind", "step"}

\* a statement under SQLITE_CHK: a rejected prepare or bind goes to cleanup,
\* which finalizes; otherwise the statement is stepped and finalized, and
\* cleanup is not reached
CheckedStatement(fr, at) ==
    LET p == Prepare(fr, at # "prepare")
    IN IF at \in {"prepare", "bind"}
       THEN Finalize(p)
       ELSE Finalize(p)

\* a statement prepared, stepped and finalized with all results ignored
UncheckedStatement(fr, ok) == Finalize(Prepare(fr, ok))

\* the handlers that prepare one statement
OneStatementHandlers == {"insertRemoteZidRecord", "updateRemoteZidRecord",
                         "readRemoteZidRecord", "insertZidNameRecord",
                         "updateZidNameRecord", "readZidNameRecord"}

\* insert, update and read of a peer or a name record: one statement under
\* SQLITE_CHK; the count of the rows found is tested after its finalize
OneStatementHandler(at) == CheckedStatement(NoStatement, at)

\* readLocalZid: the select, and after a miss the insert through the same
\* variable
readLocalZidStatements(selectAt, found, insertAt) ==
    LET sel == CheckedStatement(NoStatement, selectAt)
    IN IF selectAt # "none" THEN sel
       ELSE IF found = 0 THEN CheckedStatement(sel, insertAt)
       ELSE sel

\* where the engine rejects a statement of rej: when it is prepared or when
\* it is stepped
RejectedAt == {"prepare", "step"}

\* DROP TABLE tbl: preparing it fails when the table is missing
DropStatement(fr, D, tbl, statement, rej, stage) ==
    UncheckedStatement(fr, tbl \in D.schema /\ ~(statement \in rej /\ stage = "prepare"))

\* CREATE TABLE tbl: preparing it fails when the table exists
CreateStatement(fr, D, tbl, statement, rej, stage) ==
    CheckedStatement(fr, IF tbl \in D.schema THEN "prepare"
                         ELSE IF statement \in rej THEN stage
                         ELSE "none")

\* a function entered: its own variable stmt
Enter(fr) == [fr EXCEPT !.stmt = 0]

initializeRemoteTablesStatements(fr, D, rej, stage) ==
    LET D1 == DropTable(D, "zrtpIdRemote", "dropZrtpIdRemote" \in rej)
        D2 == DropTable(D1, "zrtpNames", "dropZrtpNames" \in rej)
        c1 == CreateTable(D2, "zrtpIdRemote", "createZrtpIdRemote", rej)
        s1 == DropStatement(Enter(fr), D, "zrtpIdRemote", "dropZrtpIdRemote", rej, stage)
        s2 == DropStatement(s1, D1, "zrtpNames", "dropZrtpNames", rej, stage)
        s3 == CreateStatement(s2, D2, "zrtpIdRemote", "createZrtpIdRemote", rej, stage)
    IN IF c1.fault.at # "none" THEN s3
       ELSE CreateStatement(s3, c1.D, "zrtpNames", "createZrtpNames", rej, stage)

createTablesStatements(fr, D, rej, stage) ==
    LET c0 == CreateTable(D, "zrtpIdOwn", "createZrtpIdOwn", rej)
        s0 == CreateStatement(Enter(fr), D, "zrtpIdOwn", "createZrtpIdOwn", rej, stage)
    IN IF c0.fault.at # "none" THEN s0
       ELSE initializeRemoteTablesStatements(s0, c0.D, rej, stage)

clearCacheStatements(D, rej, stage) ==
    createTablesStatements(
        DropStatement(NoStatement, D, "zrtpIdOwn", "dropZrtpIdOwn", rej, stage),
        DropTable(D, "zrtpIdOwn", "dropZrtpIdOwn" \in rej), rej, stage)

openCacheStatements(D, rej, stage) ==
    IF "sqlite3_open_v2" \in rej THEN NoStatement
    ELSE LET look == CheckedStatement(NoStatement,
                         IF "lookupTables" \in rej THEN stage ELSE "none")
         IN IF "lookupTables" \in rej THEN look
            ELSE IF lookupTables(D) THEN look
            ELSE createTablesStatements(look, D, rej, stage)

(***************************************************************************)
(* The values the callers pass                                             *)
(***************************************************************************)
ZidA == <<1, 2, 3, 4, 5, 6, 7, 8, 9, 10, 11, 12>>
ZidB == <<1, 2, 3, 4, 5, 6, 7, 8, 9, 10, 11, 13>>
ZidL == <<255, 254, 0, 16, 32, 64, 128, 200, 77, 63, 62, 250>>
ZidM == <<255, 254, 0, 16, 32, 64, 128, 200, 77, 191, 62, 250>>
ZidZero == [i \in 1..IDENTIFIER_LEN |-> 0]

\* the keys (remoteZid, localZid) of the keyed calls: two differ in the remote
\* ZID only, two in the local ZID only
Keys == {<<ZidA, ZidL>>, <<ZidB, ZidL>>, <<ZidA, ZidM>>}

ZeroRecord ==
    [identifier |-> ZidZero, flags |-> 0,
     rs1 |-> Blob(""), rs1LastUse |-> 0, rs1Ttl |-> 0,
     rs2 |-> Blob(""), rs2LastUse |-> 0, rs2Ttl |-> 0,
     mitmKey |-> Blob(""), mitmLastUse |-> 0, secureSince |-> 0, preshCounter |-> 0]

\* a record whose time stamps are all of this era
RecA ==
    [identifier |-> ZidZero, flags |-> 1,
     rs1 |-> Blob("rs1 of A"), rs1LastUse |-> 1700000, rs1Ttl |-> -1,
     rs2 |-> Blob("rs2 of A"), rs2LastUse |-> 1600000, rs2Ttl |-> 1600003,
     mitmKey |-> Blob("mitm of A"), mitmLastUse |-> 1500000, secureSince |-> 1400000,
     preshCounter |-> 3]

RecB ==
    [identifier |-> ZidZero, flags |-> 21,
     rs1 |-> Blob("rs1 of B"), rs1LastUse |-> 1700010, rs1Ttl |-> 1700013,
     rs2 |-> Blob("rs2 of B"), rs2LastUse |-> 1700000, rs2Ttl |-> 0,
     mitmKey |-> Blob("mitm of B"), mitmLastUse |-> 1700007, secureSince |-> 1650000,
     preshCounter |-> 7]

\* a record secured before 1970
RecEarly == [RecA EXCEPT !.flags = 5, !.secureSince = -1]

\* a record whose secureSince lies past the year 9999
RecFar == [RecB EXCEPT !.flags = 9, !.secureSince = MaxUnixEpoch + 1]

Records == {RecA, RecFar}

Buffers == {ZeroRecord, RecA}

Accounts == {NullAccount, defaultAccountString, "alice", "bob"}

\* the accounts and the peer keys of callers that share the cache
ConcAccounts == {NullAccount, "alice"}
ConcKeys == {<<ZidA, ZidL>>, <<ZidB, ZidL>>}

\* what randomZRTP may deliver
RandomZids == {ZidL, ZidM}

\* the keys (remoteZid, localZid, accountInfo) of the name store
NameKeys == {<<ZidA, ZidL, NullAccount>>, <<ZidA, ZidL, "alice">>, <<ZidB, ZidL, "alice">>}

\* the peer keys used beside the name store
PeerKeysBesideNames == {<<ZidA, ZidL>>, <<ZidB, ZidL>>}

\* the caller's zidNameRecord_t: a buffer of nameLength characters
ZeroName == [flags |-> 0, lastUpdateTime |-> 0, name |-> Name(<<>>), nameLength |-> 4]

\* the records the caller writes: one named, with a time stamp of its own,
\* one without a name
NameAl == [flags |-> 1, lastUpdateTime |-> 5, name |-> Name(<<"A", "l">>), nameLength |-> 2]
NameNone == [flags |-> 2, lastUpdateTime |-> 0, name |-> NullName, nameLength |-> 0]

\* a record whose name is longer than the buffer of ZeroName
NameLong == [flags |-> 3, lastUpdateTime |-> 0,
             name |-> Name(<<"A", "l", "i", "c", "e">>), nameLength |-> 5]

\* the name records inserted and the keys read where the account matters
NameKeyInserts == {<<ZidA, ZidL, NullAccount, NameNone>>,
                   <<ZidA, ZidL, defaultAccountString, NameAl>>,
                   <<ZidA, ZidL, "alice", NameLong>>}
NameKeyReads == {<<ZidA, ZidL, NullAccount>>, <<ZidA, ZidL, defaultAccountString>>,
                 <<ZidA, ZidL, "alice">>, <<ZidA, ZidL, "bob">>, <<ZidB, ZidL, "alice">>}

\* the name records the caller inserts and those it updates: remote ZID,
\* local ZID, account, record
NameInserts == {<<ZidA, ZidL, NullAccount, NameNone>>, <<ZidA, ZidL, "alice", NameAl>>}
NameUpdates == {<<ZidA, ZidL, defaultAccountString, NameAl>>, <<ZidA, ZidL, "alice", NameNone>>,
                <<ZidB, ZidL, "alice", NameAl>>}

\* the clock when the cache is opened
ClockStart == 1700000

\* the fields of remoteZidRecord_t the keyed operations store and fetch
StoredFields(r) == [r EXCEPT !.identifier = ZidZero]

\* op: the call's name and arguments; tick flips with every call
NoOp == [name |-> "none", remoteZid |-> ZidZero, localZid |-> ZidZero,
         rec |-> ZeroRecord, account |-> NullAccount, tick |-> 0]

Call(name, remoteZid, localZidArg, r, account) ==
    [name |-> name, remoteZid |-> remoteZid, localZid |-> localZidArg,
     rec |-> r, account |-> account, tick |-> 1 - op.tick]

\* the statement of prepareReadAllZid: "none" before the first one,
\* "prepared" until its first step, "rows" while it has returned a row, and
\* finalized as "done" (by readNextZidRecord) or "closed" (by closeStatement);
\* rows are the result rows still to come, base the table the result was
\* computed from
NoStmt == [state |-> "none", rows |-> <<>>, base |-> <<>>]

\* past: the peer keys and name keys inserted and the identifier readLocalZid
\* returned last for each account, since the cache was created or reset, and
\* the same three as they were when clearCache last returned SQLITE_OK
OwnKeys == {LocalZidKey(accountInfo) : accountInfo \in Accounts}
NoPast == [peerKeys |-> {}, nameKeys |-> {},
           zids |-> [k \in OwnKeys |-> ZidZero],
           peerKeysAtReset |-> {}, nameKeysAtReset |-> {},
           zidsAtReset |-> [k \in OwnKeys |-> ZidZero]]

\* the bytes tried in each group of three: all bits clear, the low bits of
\* each six-bit digit, the bits on both sides of a digit boundary, all bits set
SampleBytes == {0, 3, 15, 16, 192, 255}

\* identifier base with the bytes t in its group g (1..4)
WithGroup(base, g, t) ==
    [i \in 1..IDENTIFIER_LEN |->
        IF i > 3 * (g - 1) /\ i <= 3 * g THEN t[i - 3 * (g - 1)] ELSE base[i]]

Identifiers ==
    {WithGroup(ZidL, g, t) : g \in 1..(IDENTIFIER_LEN \div 3),
                             t \in SampleBytes \X SampleBytes \X SampleBytes}

\* the identifiers compared with x: itself, one differing in the last bit, one
\* differing in the first byte, and an unrelated one
Others(x) == {x, [x EXCEPT ![IDENTIFIER_LEN] = (@ + 1) % 256],
              [x EXCEPT ![1] = 255 - @], ZidA}

\* codec: two identifiers, their base64 texts and what decoding the texts gives
NoCodec == [x |-> ZidZero, y |-> ZidZero, b64x |-> <<>>, b64y |-> <<>>,
            binx |-> <<>>, biny |-> <<>>]

\* frame: the handler examined last, how it returned, and the finalize counts
\* of the statements it prepared
NoFrame == [handler |-> "none", path |-> "none", finalized |-> <<>>]

\* a thread between two calls: its position, the arguments of the call it is
\* in, its buffers and the code its last call returned
IdleThread == [pc |-> "idle", account |-> NullAccount, key |-> <<ZidZero, ZidZero>>,
               localZid |-> ZidZero, remZid |-> ZeroRecord, rc |-> SQLITE_OK]

(***************************************************************************)
(* Init: the cache after openCache on an empty database                    *)
(***************************************************************************)
\* no call made yet
InitCaller ==
    /\ op = NoOp
    /\ rc = SQLITE_OK
    /\ errString = NoError
    /\ remZid \in Buffers
    /\ localZid = ZidZero
    /\ stmt = NoStmt
    /\ vstmt = FALSE
    /\ log = <<>>
    /\ zidName = ZeroName
    /\ clock = ClockStart
    /\ fault = NoFault

\* no rows, no call made yet
InitEmpty ==
    /\ InitCaller
    /\ zrtpIdOwn = <<>>
    /\ zrtpIdRemote = <<>>
    /\ zrtpNames = <<>>
    /\ drawn = <<>>
    /\ past = NoPast

InitCache == InitEmpty /\ schema = AllTables /\ db = "open"

\* the database file before the first openCache
InitFile == InitEmpty /\ schema = {} /\ db = "closed"

\* one caller
Init == InitCache /\ thr = <<>> /\ codec = NoCodec /\ frame = NoFrame

\* one caller whose remoteZidRecord_t buffer starts zeroed
InitNames == Init /\ remZid = ZeroRecord

\* NumThreads callers sharing the handle
InitThreads == InitCache /\ thr = [t \in 1..NumThreads |-> IdleThread] /\ codec = NoCodec /\ frame = NoFrame

(***************************************************************************)
(* The keyed operations of the peer-secret store, one caller               *)
(***************************************************************************)
\* insertRemoteZidRecord while the engine rejects f
InsertRemoteZidRecordUnder(f, remoteZid, localZidArg, r) ==
    /\ LET met == Met(f, "zrtpIdRemote", schema)
           res == EngineWrite(met, zrtpIdRemote,
                      insertRemoteZidRecord(zrtpIdRemote, remoteZid, localZidArg, r))
       IN /\ zrtpIdRemote' = res.table
          /\ rc' = res.rc
          /\ errString' = Written(EngineError(met), errString)
          /\ fault' = met
          /\ past' = IF res.rc = SQLITE_OK
                     THEN [past EXCEPT !.peerKeys = @ \cup {<<remoteZid, localZidArg>>}]
                     ELSE past
    /\ op' = Call("insertRemoteZidRecord", remoteZid, localZidArg, r, NullAccount)
    /\ UNCHANGED <<zrtpIdOwn, remZid, localZid, stmt, vstmt, log, drawn, thr>>
    /\ UNCHANGED <<nameVars, schema, db, codec, frame>>

InsertRemoteZidRecord(remoteZid, localZidArg, r) ==
    InsertRemoteZidRecordUnder(NoFault, remoteZid, localZidArg, r)

\* updateRemoteZidRecord while the engine rejects f
UpdateRemoteZidRecordUnder(f, remoteZid, localZidArg, r) ==
    /\ LET met == Met(f, "zrtpIdRemote", schema)
           res == EngineWrite(met, zrtpIdRemote,
                      updateRemoteZidRecord(zrtpIdRemote, remoteZid, localZidArg, r))
       IN /\ zrtpIdRemote' = res.table
          /\ rc' = res.rc
          /\ errString' = Written(EngineError(met), errString)
          /\ fault' = met
    /\ op' = Call("updateRemoteZidRecord", remoteZid, localZidArg, r, NullAccount)
    /\ UNCHANGED <<zrtpIdOwn, remZid, localZid, stmt, vstmt, log, drawn, thr>>
    /\ UNCHANGED <<nameVars, schema, db, past, codec, frame>>

UpdateRemoteZidRecord(remoteZid, localZidArg, r) ==
    UpdateRemoteZidRecordUnder(NoFault, remoteZid, localZidArg, r)

\* readRemoteZidRecord; preparing the select fails when the table is missing
ReadRemoteZidRecord(remoteZid, localZidArg) ==
    /\ LET met == Met(NoFault, "zrtpIdRemote", schema)
           res == readRemoteZidRecord(zrtpIdRemote, remoteZid, localZidArg, remZid)
       IN IF met.at = "none"
          THEN /\ remZid' = res.remZid
               /\ rc' = res.rc
               /\ errString' = Written(res.err, errString)
               /\ fault' = met
          ELSE /\ remZid' = remZid
               /\ rc' = met.code
               /\ errString' = EngineError(met)
               /\ fault' = met
    /\ op' = Call("readRemoteZidRecord", remoteZid, localZidArg, ZeroRecord, NullAccount)
    /\ UNCHANGED <<zrtpIdOwn, zrtpIdRemote, localZid, stmt, vstmt, log, drawn, thr>>
    /\ UNCHANGED <<nameVars, schema, db, past, codec, frame>>

Next ==
    \E key \in Keys :
        \/ \E r \in Records : /\ Len(zrtpIdRemote) < MaxRows
                                /\ InsertRemoteZidRecord(key[1], key[2], r)
        \/ \E r \in Records : UpdateRemoteZidRecord(key[1], key[2], r)
        \/ ReadRemoteZidRecord(key[1], key[2])

Spec == Init /\ [][Next]_vars

(***************************************************************************)
(* The enumeration of the peer records, one caller.  The caller keeps the  *)
(* handle the last call returned.                                          *)
(***************************************************************************)
\* the rows the caller inserts: remote ZID, local ZID, record
CursorInserts == {<<ZidA, ZidL, RecA>>, <<ZidA, ZidM, RecA>>, <<ZidB, ZidM, RecB>>,
                  <<ZidB, ZidL, RecEarly>>, <<ZidA, ZidL, RecFar>>}

PrepareReadAllZid ==
    /\ stmt' = prepareReadAllZid
    /\ vstmt' = TRUE
    /\ log' = <<>>
    /\ op' = Call("prepareReadAllZid", ZidZero, ZidZero, ZeroRecord, NullAccount)
    /\ UNCHANGED <<zrtpIdOwn, zrtpIdRemote, rc, errString, remZid, localZid, drawn, thr>>
    /\ UNCHANGED <<nameVars, dbVars, codec, frame>>

ReadNextZidRecord ==
    /\ IF vstmt = FALSE
       THEN UNCHANGED <<stmt, vstmt, remZid, log>>
       ELSE \E stepped \in StepStatement(stmt, zrtpIdRemote) :
               LET res == readNextZidRecord(stepped, remZid)
               IN /\ stmt' = res.stmt
                  /\ remZid' = res.remZid
                  /\ vstmt' = res.handle
                  /\ log' = IF res.handle THEN Append(log, res.remZid) ELSE log
    /\ op' = Call("readNextZidRecord", ZidZero, ZidZero, ZeroRecord, NullAccount)
    /\ UNCHANGED <<zrtpIdOwn, zrtpIdRemote, rc, errString, localZid, drawn, thr>>
    /\ UNCHANGED <<nameVars, dbVars, codec, frame>>

CloseStatement ==
    /\ IF vstmt = FALSE
       THEN UNCHANGED stmt
       ELSE stmt' = [stmt EXCEPT !.state = "closed"]
    /\ vstmt' = FALSE
    /\ op' = Call("closeStatement", ZidZero, ZidZero, ZeroRecord, NullAccount)
    /\ UNCHANGED <<zrtpIdOwn, zrtpIdRemote, rc, errString, remZid, localZid, log, drawn, thr>>
    /\ UNCHANGED <<nameVars, dbVars, codec, frame>>

NextCursor ==
    \/ \E ins \in CursorInserts :
          /\ Len(zrtpIdRemote) < MaxCursorRows
          /\ InsertRemoteZidRecord(ins[1], ins[2], ins[3])
    \/ PrepareReadAllZid
    \/ ReadNextZidRecord
    \/ CloseStatement

SpecCursor == Init /\ [][NextCursor]_vars

(***************************************************************************)
(* The enumeration on an engine that may reject a step.  The caller passes *)
(* its error buffer or nullptr for errString.                              *)
(***************************************************************************)
StepFault == [at |-> "step", code |-> SQLITE_BUSY]

ErrString == {"buffer", "nullptr"}

\* readNextZidRecord on the statement `statement`, which sqlite3_step moves to
\* `stepped` unless the engine rejects the step (f): a rejected step is not
\* SQLITE_ROW, so the statement is finalized and nullptr returns
readNextZidRecordUnder(f, statement, stepped, buf) ==
    IF f.at = "step"
    THEN [stmt    |-> [statement EXCEPT !.state = "done", !.rows = <<>>],
          remZid  |-> buf,
          handle  |-> FALSE]
    ELSE readNextZidRecord(stepped, buf)

ReadNextZidRecordUnder(f, err) ==
    /\ IF vstmt = FALSE
       THEN /\ fault' = NoFault
            /\ UNCHANGED <<stmt, vstmt, remZid, log, errString>>
       ELSE \E stepped \in StepStatement(stmt, zrtpIdRemote) :
               LET res == readNextZidRecordUnder(f, stmt, stepped, remZid)
               IN /\ stmt' = res.stmt
                  /\ remZid' = res.remZid
                  /\ vstmt' = res.handle
                  /\ log' = IF res.handle THEN Append(log, res.remZid) ELSE log
                  /\ errString' = IF err = "nullptr" THEN errString
                                  ELSE Written(EngineError(f), errString)
                  /\ fault' = f
    /\ op' = Call("readNextZidRecord", ZidZero, ZidZero, ZeroRecord, NullAccount)
    /\ UNCHANGED <<zrtpIdOwn, zrtpIdRemote, rc, localZid, drawn, thr>>
    /\ UNCHANGED <<nameVars, schema, db, past, codec, frame>>

NextCursorFaults ==
    \/ \E ins \in CursorInserts :
          /\ Len(zrtpIdRemote) < MaxRows
          /\ InsertRemoteZidRecord(ins[1], ins[2], ins[3])
    \/ PrepareReadAllZid
    \/ \E f \in {NoFault, StepFault}, err \in ErrString : ReadNextZidRecordUnder(f, err)
    \/ CloseStatement

SpecCursorFaults == InitNames /\ [][NextCursorFaults]_vars

(***************************************************************************)
(* The enumeration when the caller may pass on a handle it has kept after  *)
(* the statement was finalized.  readNextZidRecord tests the handle for    *)
(* nullptr only, so sqlite3_step runs on freed memory: undefined           *)
(* behaviour, whose outcomes are chosen here by `outcome`.                 *)
(***************************************************************************)
SQLITE_MISUSE == 21

\* the engine notices the finalized statement / the freed memory steps like a
\* statement with a row of arbitrary content / the process is terminated
Outcomes == {"misuse", "row", "abort"}

\* the content of a row fetched through freed memory
StaleRows == {RecA, RecB}

ReadNextZidRecordFinalized(outcome) ==
    /\ vstmt = FALSE
    /\ stmt.state \in {"done", "closed"}
    /\ CASE outcome = "misuse" ->
              /\ errString' = ErrorText("SQLite3 error", SQLITE_MISUSE)
              /\ fault' = [at |-> "sqlite3_step", code |-> SQLITE_MISUSE]
              /\ UNCHANGED <<stmt, vstmt, remZid, db>>
         [] outcome = "row" ->
              /\ \E r \in StaleRows : remZid' = r
              /\ vstmt' = TRUE
              /\ stmt' = [stmt EXCEPT !.state = "corrupt"]
              /\ UNCHANGED <<errString, fault, db>>
         [] outcome = "abort" ->
              /\ db' = "aborted"
              /\ UNCHANGED <<stmt, vstmt, remZid, errString, fault>>
    /\ op' = Call("readNextZidRecord", ZidZero, ZidZero, ZeroRecord, NullAccount)
    /\ UNCHANGED <<zrtpIdOwn, zrtpIdRemote, rc, localZid, log, drawn, thr>>
    /\ UNCHANGED <<nameVars, schema, past, codec, frame>>

\* nothing is modelled after memory was corrupted or the process terminated
Sound == db = "open" /\ stmt.state # "corrupt"

NextAnyHandle ==
    \/ \E ins \in CursorInserts :
          /\ Sound
          /\ Len(zrtpIdRemote) < MaxCursorRows
          /\ InsertRemoteZidRecord(ins[1], ins[2], ins[3])
    \/ Sound /\ PrepareReadAllZid
    \/ Sound /\ ReadNextZidRecord
    \/ Sound /\ CloseStatement
    \/ \E outcome \in Outcomes : Sound /\ ReadNextZidRecordFinalized(outcome)

SpecAnyHandle == Init /\ [][NextAnyHandle]_vars

(***************************************************************************)
(* The own-identity store, one caller                                      *)
(***************************************************************************)
\* readLocalZid while the engine rejects f in the insert; preparing the
\* select fails when the table is missing.  randomZRTP has written the
\* caller's buffer before the insert is prepared.
ReadLocalZidUnder(f, accountInfo, random) ==
    /\ LET res == readLocalZid(zrtpIdOwn, accountInfo, localZid, random)
           met == IF "zrtpIdOwn" \notin schema THEN Met(f, "zrtpIdOwn", schema)
                  ELSE IF res.drew THEN f ELSE NoFault
           w   == EngineWrite(met, zrtpIdOwn, [table |-> res.table, rc |-> res.rc])
       IN IF "zrtpIdOwn" \in schema
          THEN /\ zrtpIdOwn' = w.table
               /\ localZid' = res.localZid
               /\ rc' = w.rc
               /\ errString' = Written(IF met.at = "none" THEN res.err ELSE EngineError(met),
                                       errString)
               /\ drawn' = IF res.drew THEN Append(drawn, random) ELSE drawn
               /\ fault' = met
               /\ past' = IF w.rc = SQLITE_OK
                          THEN [past EXCEPT !.zids[LocalZidKey(accountInfo)] = res.localZid]
                          ELSE past
          ELSE /\ rc' = met.code
               /\ errString' = EngineError(met)
               /\ fault' = met
               /\ UNCHANGED <<zrtpIdOwn, localZid, drawn, past>>
    /\ op' = Call("readLocalZid", ZidZero, ZidZero, ZeroRecord, accountInfo)
    /\ UNCHANGED <<zrtpIdRemote, remZid, stmt, vstmt, log, thr>>
    /\ UNCHANGED <<nameVars, schema, db, codec, frame>>

ReadLocalZid(accountInfo, random) == ReadLocalZidUnder(NoFault, accountInfo, random)

NextLocal == \E accountInfo \in Accounts, random \in RandomZids :
                 ReadLocalZid(accountInfo, random)

SpecLocal == Init /\ [][NextLocal]_vars

(***************************************************************************)
(* The name store, one caller, beside the keyed peer operations            *)
(***************************************************************************)
\* insertZidNameRecord while the engine rejects f; the caller has filled
\* its record with z
InsertZidNameRecordUnder(f, remoteZid, localZidArg, accountInfo, z) ==
    /\ LET met == Met(f, "zrtpNames", schema)
           res == EngineWrite(met, zrtpNames,
                      insertZidNameRecord(zrtpNames, remoteZid, localZidArg, accountInfo,
                                          z, clock))
       IN /\ zrtpNames' = res.table
          /\ rc' = res.rc
          /\ errString' = Written(EngineError(met), errString)
          /\ fault' = met
          /\ past' = IF res.rc = SQLITE_OK
                     THEN [past EXCEPT !.nameKeys =
                              @ \cup {<<remoteZid, localZidArg, NameAccount(accountInfo)>>}]
                     ELSE past
    /\ zidName' = z
    /\ op' = Call("insertZidNameRecord", remoteZid, localZidArg, ZeroRecord, accountInfo)
    /\ UNCHANGED <<zrtpIdOwn, zrtpIdRemote, remZid, localZid, stmt, vstmt, log,
                   drawn, thr, clock, schema, db, codec, frame>>

InsertZidNameRecord(remoteZid, localZidArg, accountInfo, z) ==
    InsertZidNameRecordUnder(NoFault, remoteZid, localZidArg, accountInfo, z)

\* updateZidNameRecord while the engine rejects f
UpdateZidNameRecordUnder(f, remoteZid, localZidArg, accountInfo, z) ==
    /\ LET met == Met(f, "zrtpNames", schema)
           res == EngineWrite(met, zrtpNames,
                      updateZidNameRecord(zrtpNames, remoteZid, localZidArg, accountInfo,
                                          z, clock))
       IN /\ zrtpNames' = res.table
          /\ rc' = res.rc
          /\ errString' = Written(EngineError(met), errString)
          /\ fault' = met
    /\ zidName' = z
    /\ op' = Call("updateZidNameRecord", remoteZid, localZidArg, ZeroRecord, accountInfo)
    /\ UNCHANGED <<zrtpIdOwn, zrtpIdRemote, remZid, localZid, stmt, vstmt, log,
                   drawn, thr, clock, schema, db, past, codec, frame>>

UpdateZidNameRecord(remoteZid, localZidArg, accountInfo, z) ==
    UpdateZidNameRecordUnder(NoFault, remoteZid, localZidArg, accountInfo, z)

\* readZidNameRecord into the buffer buf; preparing the select fails when the
\* table is missing
ReadZidNameRecord(remoteZid, localZidArg, accountInfo, buf) ==
    /\ LET met == Met(NoFault, "zrtpNames", schema)
           res == readZidNameRecord(zrtpNames, remoteZid, localZidArg, accountInfo, buf)
       IN IF met.at = "none"
          THEN /\ zidName' = res.zidName
               /\ rc' = res.rc
               /\ errString' = Written(res.err, errString)
               /\ fault' = met
          ELSE /\ zidName' = buf
               /\ rc' = met.code
               /\ errString' = EngineError(met)
               /\ fault' = met
    /\ op' = Call("readZidNameRecord", remoteZid, localZidArg, ZeroRecord, accountInfo)
    /\ UNCHANGED <<zrtpIdOwn, zrtpIdRemote, remZid, localZid, stmt, vstmt, log,
                   drawn, thr, zrtpNames, clock, schema, db, past, codec, frame>>

\* a second passes
TimePasses ==
    /\ clock' = clock + 1
    /\ UNCHANGED <<zrtpIdOwn, zrtpIdRemote, op, rc, errString, remZid, localZid, stmt, vstmt,
                   log, drawn, thr, zrtpNames, zidName, dbVars, codec, frame>>

NextNames ==
    \/ \E w \in NameInserts :
          /\ Len(zrtpNames) < MaxNameRows
          /\ InsertZidNameRecord(w[1], w[2], w[3], w[4])
    \/ \E w \in NameUpdates : UpdateZidNameRecord(w[1], w[2], w[3], w[4])
    \/ \E key \in NameKeys : ReadZidNameRecord(key[1], key[2], key[3], ZeroName)
    \/ /\ zrtpIdRemote = <<>>
       /\ InsertRemoteZidRecord(ZidA, ZidL, RecA)
    \/ \E key \in PeerKeysBesideNames : UpdateRemoteZidRecord(key[1], key[2], RecB)
    \/ clock < ClockStart + MaxTicks /\ TimePasses

SpecNames == InitNames /\ [][NextNames]_vars

(***************************************************************************)
(* The name store, one caller: inserts and reads under accounts that are   *)
(* null, the default account string, or another label                      *)
(***************************************************************************)
NextNameKeys ==
    \/ \E w \in NameKeyInserts :
          /\ Len(zrtpNames) < MaxNameRows
          /\ InsertZidNameRecord(w[1], w[2], w[3], w[4])
    \/ \E key \in NameKeyReads : ReadZidNameRecord(key[1], key[2], key[3], ZeroName)

SpecNameKeys == InitNames /\ [][NextNameKeys]_vars

(***************************************************************************)
(* The five writing handlers, one caller, on an engine that may reject any *)
(* prepare, bind or step                                                   *)
(***************************************************************************)
NextFaults ==
    \E f \in Faults \cup {NoFault} :
        \/ /\ zrtpIdRemote = <<>>
           /\ InsertRemoteZidRecordUnder(f, ZidA, ZidL, RecA)
        \/ UpdateRemoteZidRecordUnder(f, ZidA, ZidL, RecB)
        \/ /\ zrtpNames = <<>>
           /\ InsertZidNameRecordUnder(f, ZidA, ZidL, "alice", NameAl)
        \/ UpdateZidNameRecordUnder(f, ZidA, ZidL, "alice", NameNone)
        \/ \E accountInfo \in ConcAccounts :
              /\ Len(drawn) < MaxDraws
              /\ ReadLocalZidUnder(f, accountInfo, ZidM)

SpecFaults == InitNames /\ [][NextFaults]_vars

(***************************************************************************)
(* The life of a cache: openCache, closeCache and clearCache on an engine  *)
(* that may reject statements, with keyed calls while the cache is open    *)
(***************************************************************************)
\* what the engine rejects during one call: nothing, or one statement
Rejections == {{}} \cup {{statement} : statement \in Statements}

File == [schema |-> schema, own |-> zrtpIdOwn, remote |-> zrtpIdRemote, names |-> zrtpNames]

\* openCache while the engine rejects the statements rej.  *vpdb holds the
\* connection as soon as sqlite3_open_v2 has succeeded.
OpenCache(rej) ==
    /\ db = "closed"
    /\ LET res == openCache(File, rej)
       IN /\ schema' = res.D.schema
          /\ zrtpIdOwn' = res.D.own
          /\ zrtpIdRemote' = res.D.remote
          /\ zrtpNames' = res.D.names
          /\ rc' = res.fault.code
          /\ errString' = Written(EngineError(res.fault), errString)
          /\ fault' = res.fault
          /\ db' = IF res.fault.at = "sqlite3_open_v2" THEN "closed" ELSE "open"
    /\ op' = Call("openCache", ZidZero, ZidZero, ZeroRecord, NullAccount)
    /\ UNCHANGED <<remZid, localZid, stmt, vstmt, log, drawn, thr, zidName, clock, past, codec, frame>>

\* sqlite3_close: the engine refuses with SQLITE_BUSY, and keeps the
\* connection, while a prepared statement of the connection is not finalized
sqlite3_close(statement) ==
    IF statement.state \in {"prepared", "rows"}
    THEN [at |-> "sqlite3_close", code |-> SQLITE_BUSY]
    ELSE NoFault

\* as if closeCache returned what sqlite3_close returns
closeCacheReturnsEngine(statement) ==
    [rc |-> sqlite3_close(statement).code, fault |-> sqlite3_close(statement)]

\* closeCache: the code it returns and what the engine refused
closeCache(statement) ==
    [rc |-> SQLITE_OK, fault |-> sqlite3_close(statement)]

\* the caller gives up the handle; a connection the engine did not close is
\* "leaked"
CloseCache ==
    /\ db = "open"
    /\ LET res == closeCache(stmt)
       IN /\ rc' = res.rc
          /\ fault' = res.fault
          /\ db' = IF res.fault.at = "none" THEN "closed" ELSE "leaked"
    /\ op' = Call("closeCache", ZidZero, ZidZero, ZeroRecord, NullAccount)
    /\ UNCHANGED <<zrtpIdOwn, zrtpIdRemote, errString, remZid, localZid, stmt, vstmt, log,
                   drawn, thr, nameVars, schema, past, codec, frame>>

\* clearCache while the engine rejects the statements rej
ClearCache(rej) ==
    /\ db = "open"
    /\ LET res == clearCache(File, rej)
       IN /\ schema' = res.D.schema
          /\ zrtpIdOwn' = res.D.own
          /\ zrtpIdRemote' = res.D.remote
          /\ zrtpNames' = res.D.names
          /\ rc' = res.fault.code
          /\ errString' = Written(EngineError(res.fault), errString)
          /\ fault' = res.fault
          /\ past' = IF res.fault.code = SQLITE_OK
                     THEN [NoPast EXCEPT !.peerKeysAtReset = past.peerKeys,
                                         !.nameKeysAtReset = past.nameKeys,
                                         !.zidsAtReset = past.zids]
                     ELSE past
    /\ op' = Call("clearCache", ZidZero, ZidZero, ZeroRecord, NullAccount)
    /\ UNCHANGED <<remZid, localZid, stmt, vstmt, log, drawn, thr, zidName, clock, db, codec, frame>>

\* the first identifier randomZRTP delivers is called ZidL
NextLifecycle ==
    \/ \E rej \in Rejections : OpenCache(rej) \/ ClearCache(rej)
    \/ CloseCache
    \/ /\ db = "open"
       /\ zrtpIdRemote = <<>>
       /\ InsertRemoteZidRecord(ZidA, ZidL, RecA)
    \/ /\ db = "open"
       /\ zrtpNames = <<>>
       /\ InsertZidNameRecord(ZidA, ZidL, "alice", NameAl)
    \/ \E random \in (IF drawn = <<>> THEN {ZidL} ELSE RandomZids) :
          /\ db = "open"
          /\ Len(drawn) < MaxDraws
          /\ ReadLocalZid("alice", random)

\* closeCache between the calls of an enumeration, and openCache again
NextClose ==
    \/ \E ins \in CursorInserts :
          /\ db = "open"
          /\ Len(zrtpIdRemote) < MaxRows
          /\ InsertRemoteZidRecord(ins[1], ins[2], ins[3])
    \/ db = "open" /\ PrepareReadAllZid
    \/ db = "open" /\ ReadNextZidRecord
    \/ db = "open" /\ CloseStatement
    \/ CloseCache
    \/ OpenCache({})

SpecClose == InitNames /\ [][NextClose]_vars

InitLifecycle == InitFile /\ remZid = ZeroRecord /\ thr = <<>> /\ codec = NoCodec /\ frame = NoFrame

SpecLifecycle == InitLifecycle /\ [][NextLifecycle]_vars

(***************************************************************************)
(* The reading operations beside everything that stores or removes rows:  *)
(* one peer key, one name triple and one account, the enumeration,         *)
(* clearCache, closeCache and openCache.                                   *)
(***************************************************************************)
\* zrtpIdOwn as two callers leave it that both missed the row of "alice"
\* before either inserted (the state SpecLocalThreads ends in)
RacedOwn == LocalZidInsert(LocalZidInsert(<<>>, "alice", ZidL), "alice", ZidM)

\* the cache after openCache on an empty database and the two racing callers
InitReads ==
    /\ InitCaller
    /\ remZid = ZeroRecord
    /\ zrtpIdOwn = RacedOwn
    /\ drawn = <<ZidL, ZidM>>
    /\ past = [NoPast EXCEPT !.zids[LocalZidKey("alice")] = ZidM]
    /\ zrtpIdRemote = <<>>
    /\ zrtpNames = <<>>
    /\ schema = AllTables
    /\ db = "open"
    /\ thr = <<>>
    /\ codec = NoCodec /\ frame = NoFrame

\* The caller stores the peer key up to MaxRows times and the name triple
\* up to MaxNameRows times, reads all three stores (the own identifier
\* while the account has rows) and enumerates the peers once.  A clearCache comes before the peer and name rows are stored, and
\* the engine rejects its create of zrtpIdOwn; the caller closes the cache
\* after it and opens it again.
NextReads ==
    \/ /\ db = "open"
       /\ Len(zrtpIdRemote) < MaxRows
       /\ InsertRemoteZidRecord(ZidA, ZidL, RecA)
    \/ /\ db = "open"
       /\ zrtpIdRemote = <<>>
       /\ Len(zrtpNames) < MaxNameRows
       /\ InsertZidNameRecord(ZidA, ZidL, "alice", NameAl)
    \/ db = "open" /\ ReadRemoteZidRecord(ZidA, ZidL)
    \/ db = "open" /\ ReadZidNameRecord(ZidA, ZidL, "alice", ZeroName)
    \/ /\ db = "open"
       /\ LocalZidSelect(zrtpIdOwn, "alice", localZid).found > 0
       /\ ReadLocalZid("alice", ZidL)
    \/ /\ db = "open"
       /\ stmt = NoStmt
       /\ zrtpIdRemote # <<>>
       /\ PrepareReadAllZid
    \/ db = "open" /\ vstmt /\ ReadNextZidRecord
    \/ /\ zrtpIdRemote = <<>>
       /\ zrtpNames = <<>>
       /\ ClearCache({"createZrtpIdOwn"})
    \/ /\ "zrtpIdOwn" \notin schema
       /\ sqlite3_close(stmt) = NoFault
       /\ CloseCache
    \/ OpenCache({})

SpecReads == InitReads /\ [][NextReads]_vars

(***************************************************************************)
(* The encoding layer on its own: two identifiers are encoded as the       *)
(* handlers encode their keys, and the texts decoded as readLocalZid and   *)
(* readNextZidRecord decode a stored column                                *)
(***************************************************************************)
InitCodec ==
    /\ InitCache
    /\ remZid = ZeroRecord
    /\ thr = <<>>
    /\ frame = NoFrame
    /\ \E x \in Identifiers : \E y \in Others(x) :
          codec = [NoCodec EXCEPT !.x = x, !.y = y]

Encode ==
    /\ codec.b64x = <<>>
    /\ codec' = [codec EXCEPT !.b64x = b64Encode(codec.x), !.b64y = b64Encode(codec.y)]
    /\ UNCHANGED <<zrtpIdOwn, zrtpIdRemote, op, rc, errString, remZid, localZid, stmt, vstmt,
                   log, drawn, thr, nameVars, dbVars, frame>>

Decode ==
    /\ codec.b64x # <<>>
    /\ codec.binx = <<>>
    /\ codec' = [codec EXCEPT !.binx = b64Decode(codec.b64x), !.biny = b64Decode(codec.b64y)]
    /\ UNCHANGED <<zrtpIdOwn, zrtpIdRemote, op, rc, errString, remZid, localZid, stmt, vstmt,
                   log, drawn, thr, nameVars, dbVars, frame>>

NextCodec == Encode \/ Decode

SpecCodec == InitCodec /\ [][NextCodec]_vars

(***************************************************************************)
(* The statements of the handlers on every return path, beside an          *)
(* enumeration of the peer records on an engine that may reject a step.    *)
(* The handlers are examined before the caller starts the enumeration.     *)
(***************************************************************************)
\* the sets of tables a database file holds in SpecLifecycle
Schemas == {{}, {"zrtpIdRemote"}, {"zrtpIdOwn"}, {"zrtpIdOwn", "zrtpIdRemote"},
            {"zrtpIdRemote", "zrtpNames"}, AllTables}

\* the rows a select may find: none, one, or two of one key
FoundRows == {0, 1, 2}

\* the handlers that count the rows a select finds
CountingHandlers == {"readRemoteZidRecord", "readZidNameRecord", "readLocalZid"}

\* how a call returns
ReturnPath(handler, rejected, found) ==
    IF rejected THEN "engine error"
    ELSE IF handler \in CountingHandlers /\ found > 1 THEN "consistency error"
    ELSE "success"

\* a database file with the tables S
FileOf(S) == [schema |-> S, own |-> <<>>, remote |-> <<>>, names |-> <<>>]

Examine(handler, path, fr) ==
    /\ stmt = NoStmt
    /\ frame' = [handler |-> handler, path |-> path, finalized |-> fr.finalized]
    /\ UNCHANGED <<zrtpIdOwn, zrtpIdRemote, op, rc, errString, remZid, localZid, stmt, vstmt,
                   log, drawn, thr, nameVars, dbVars, codec>>

\* The caller ends an enumeration, by a null return or closeStatement, before
\* it prepares the next one.
NextStatements ==
    \/ \E handler \in OneStatementHandlers, at \in Stages, found \in FoundRows :
          Examine(handler, ReturnPath(handler, at # "none", found),
                  OneStatementHandler(at))
    \/ \E selectAt \in Stages, found \in FoundRows, insertAt \in Stages :
          Examine("readLocalZid",
                  ReturnPath("readLocalZid",
                             selectAt # "none" \/ (found = 0 /\ insertAt # "none"), found),
                  readLocalZidStatements(selectAt, found, insertAt))
    \/ \E S \in Schemas, rej \in Rejections, stage \in RejectedAt :
          Examine("openCache",
                  ReturnPath("openCache", openCache(FileOf(S), rej).fault # NoFault, 0),
                  openCacheStatements(FileOf(S), rej, stage))
    \/ \E S \in Schemas, rej \in Rejections, stage \in RejectedAt :
          Examine("clearCache",
                  ReturnPath("clearCache", clearCache(FileOf(S), rej).fault # NoFault, 0),
                  clearCacheStatements(FileOf(S), rej, stage))
    \/ /\ Len(zrtpIdRemote) < MaxRows
       /\ InsertRemoteZidRecord(ZidA, ZidL, RecA)
    \/ vstmt = FALSE /\ PrepareReadAllZid
    \/ \E f \in {NoFault, StepFault} : ReadNextZidRecordUnder(f, "buffer")
    \/ CloseStatement

SpecStatements == InitNames /\ [][NextStatements]_vars

(***************************************************************************)
(* Several threads on one handle.  The engine runs one statement at a      *)
(* time (SQLITE_OPEN_FULLMUTEX); between two statements of a call the      *)
(* other threads may run theirs.                                           *)
(***************************************************************************)

\* readLocalZid up to the end of its select
ThreadLocalZidSelect(t, accountInfo) ==
    /\ thr[t].pc = "idle"
    /\ LET sel == LocalZidSelect(zrtpIdOwn, accountInfo, thr[t].localZid)
       IN thr' = [thr EXCEPT ![t] =
                    IF sel.found = 0
                    THEN [@ EXCEPT !.pc = "insertZrtpIdOwn", !.account = accountInfo]
                    ELSE [@ EXCEPT !.account = accountInfo,
                                   !.localZid = sel.localZid,
                                   !.rc = LocalZidResult(sel.found).rc]]
    /\ UNCHANGED <<zrtpIdOwn, zrtpIdRemote, op, rc, errString, remZid, localZid,
                   stmt, vstmt, log, drawn>>
    /\ UNCHANGED <<nameVars, dbVars, codec, frame>>

\* readLocalZid after a miss: the random value, the insert, the return
ThreadLocalZidInsert(t, random) ==
    /\ thr[t].pc = "insertZrtpIdOwn"
    /\ zrtpIdOwn' = LocalZidInsert(zrtpIdOwn, thr[t].account, random)
    /\ drawn' = Append(drawn, random)
    /\ thr' = [thr EXCEPT ![t] = [@ EXCEPT !.pc = "idle", !.localZid = random,
                                            !.rc = SQLITE_OK]]
    /\ UNCHANGED <<zrtpIdRemote, op, rc, errString, remZid, localZid, stmt, vstmt, log>>
    /\ UNCHANGED <<nameVars, dbVars, codec, frame>>

NextLocalThreads ==
    \E t \in 1..NumThreads :
        \/ \E accountInfo \in ConcAccounts : ThreadLocalZidSelect(t, accountInfo)
        \/ \E random \in RandomZids : ThreadLocalZidInsert(t, random)

SpecLocalThreads == InitThreads /\ [][NextLocalThreads]_vars

\* a caller that reads a peer record and inserts one when it saw flags = 0
ThreadReadRemote(t, key) ==
    /\ thr[t].pc = "idle"
    /\ LET res == readRemoteZidRecord(zrtpIdRemote, key[1], key[2], thr[t].remZid)
       IN thr' = [thr EXCEPT ![t] =
                    [@ EXCEPT !.pc = IF res.rc = SQLITE_OK /\ res.remZid.flags = 0
                                     THEN "insertRemoteZidRecord" ELSE "idle",
                              !.key = key,
                              !.remZid = res.remZid,
                              !.rc = res.rc]]
    /\ UNCHANGED <<zrtpIdOwn, zrtpIdRemote, op, rc, errString, remZid, localZid,
                   stmt, vstmt, log, drawn>>
    /\ UNCHANGED <<nameVars, dbVars, codec, frame>>

ThreadInsertRemote(t, r) ==
    /\ thr[t].pc = "insertRemoteZidRecord"
    /\ LET res == insertRemoteZidRecord(zrtpIdRemote, thr[t].key[1], thr[t].key[2], r)
       IN /\ zrtpIdRemote' = res.table
          /\ thr' = [thr EXCEPT ![t] = [@ EXCEPT !.pc = "idle", !.rc = res.rc]]
    /\ UNCHANGED <<zrtpIdOwn, op, rc, errString, remZid, localZid, stmt, vstmt, log, drawn>>
    /\ UNCHANGED <<nameVars, dbVars, codec, frame>>

NextRemoteThreads ==
    \E t \in 1..NumThreads :
        \/ \E key \in ConcKeys : ThreadReadRemote(t, key)
        \/ \E r \in Records : ThreadInsertRemote(t, r)

SpecRemoteThreads == InitThreads /\ [][NextRemoteThreads]_vars

(***************************************************************************)
(* Properties of the keyed peer-secret operations                          *)
(***************************************************************************)
\* the rows of a table stored under the key (remoteZid, localZid)
RowsOf(table, remoteZid, localZidArg) ==
    SelectSeq(table, LAMBDA row :
        RemoteKeyMatch(row, b64Encode(remoteZid), b64Encode(localZidArg)))

Count(table, remoteZid, localZidArg) == Len(RowsOf(table, remoteZid, localZidArg))

\* this step is a call of the named operation
CallOf(name) == op'.tick # op.tick /\ op'.name = name

SameKey(a, b) == a.remoteZid = b.remoteZid /\ a.localZid = b.localZid

\* what readRemoteZidRecord returns for a key on a table, into a cleared buffer
ReadBack(table, key) == readRemoteZidRecord(table, key[1], key[2], ZeroRecord)

\* C1: when insertRemoteZidRecord on a key without a row returned SQLITE_OK,
\* the next readRemoteZidRecord of that key returns SQLITE_OK and the record
\* that was inserted, equal in every stored field, time stamps included.
C1_InsertThenReadReturnsRecord ==
    [][(/\ op.name = "insertRemoteZidRecord"
        /\ rc = SQLITE_OK
        /\ Count(zrtpIdRemote, op.remoteZid, op.localZid) = 1
        /\ CallOf("readRemoteZidRecord")
        /\ SameKey(op', op))
       => (rc' = SQLITE_OK /\ StoredFields(remZid') = StoredFields(op.rec))]_vars

\* C2: insertRemoteZidRecord on a key that has a row returns SQLITE_OK and
\* adds one more row for it; a key with two or more rows keeps them under
\* every keyed operation, and each readRemoteZidRecord of such a key returns
\* 1 with the number of matching rows in the message.
C2_SecondInsertMakesReadsFail ==
    /\ [][\A key \in Keys :
            /\ (/\ CallOf("insertRemoteZidRecord")
                /\ op'.remoteZid = key[1] /\ op'.localZid = key[2]
                /\ Count(zrtpIdRemote, key[1], key[2]) >= 1)
               => (/\ rc' = SQLITE_OK
                   /\ Count(zrtpIdRemote', key[1], key[2])
                        = Count(zrtpIdRemote, key[1], key[2]) + 1)
            /\ Count(zrtpIdRemote, key[1], key[2]) >= 2
               => Count(zrtpIdRemote', key[1], key[2]) >= 2
            /\ (/\ CallOf("readRemoteZidRecord")
                /\ op'.remoteZid = key[1] /\ op'.localZid = key[2]
                /\ Count(zrtpIdRemote, key[1], key[2]) >= 2)
               => (/\ rc' = CACHE_INCONSISTENT
                   /\ rc' # SQLITE_OK
                   /\ errString'.n = Count(zrtpIdRemote, key[1], key[2]))]_vars

C2_Witness ==
    /\ op.name = "readRemoteZidRecord"
    /\ Count(zrtpIdRemote, op.remoteZid, op.localZid) = 2
    /\ rc = CACHE_INCONSISTENT
    /\ errString.n = 2

\* C3: readRemoteZidRecord of a key without a row returns SQLITE_OK and
\* flags = 0, whatever rows other keys have and whatever the buffer held.
C3_AbsentKeyReadsFlagsZero ==
    [][(/\ CallOf("readRemoteZidRecord")
        /\ Count(zrtpIdRemote, op'.remoteZid, op'.localZid) = 0)
       => (rc' = SQLITE_OK /\ remZid'.flags = 0)]_vars

C3_Witness ==
    /\ op.name = "readRemoteZidRecord"
    /\ Count(zrtpIdRemote, op.remoteZid, op.localZid) = 0
    /\ Len(zrtpIdRemote) = 2
    /\ rc = SQLITE_OK
    /\ remZid.flags = 0
    /\ remZid.preshCounter # 0

\* C4: after updateRemoteZidRecord(key, r) on a key with exactly one row, a
\* read of that key returns r in every stored field, and every other key
\* reads back as it did before the update.
C4_UpdateThenReadReturnsRecord ==
    [][\A key \in Keys :
        (/\ CallOf("updateRemoteZidRecord")
         /\ op'.remoteZid = key[1] /\ op'.localZid = key[2]
         /\ Count(zrtpIdRemote, key[1], key[2]) = 1)
        => (/\ ReadBack(zrtpIdRemote', key).rc = SQLITE_OK
            /\ StoredFields(ReadBack(zrtpIdRemote', key).remZid) = StoredFields(op'.rec)
            /\ \A other \in Keys \ {key} :
                  ReadBack(zrtpIdRemote', other) = ReadBack(zrtpIdRemote, other))]_vars

(***************************************************************************)
(* Properties of the own-identity store                                    *)
(***************************************************************************)
\* the (type, accountInfo) pair an account label stands for
StandsFor(accountInfo) ==
    IF accountInfo \in {NullAccount, "_STANDARD_"}
    THEN [type |-> 1, accountInfo |-> "_STANDARD_"]
    ELSE [type |-> 2, accountInfo |-> accountInfo]

OwnKeyOf(row) == [type |-> row.type.v, accountInfo |-> row.accountInfo]

OwnRows(table, key) == SelectSeq(table, LAMBDA row : OwnKeyOf(row) = key)

\* C7: a readLocalZid call of one caller finds at most one row for its
\* label; on a miss it appends exactly one row, holding the identifier it
\* returns; on a hit it changes no row and returns the identifier of the row;
\* a null label and "_STANDARD_" both stand for the row (1, "_STANDARD_").
C7_ReadLocalZidIdempotent ==
    [][\A accountInfo \in Accounts :
        (CallOf("readLocalZid") /\ op'.account = accountInfo)
        => LET key == StandsFor(accountInfo)
               n   == Len(OwnRows(zrtpIdOwn, key))
           IN /\ n <= 1
              /\ rc' = SQLITE_OK
              /\ n = 0 => /\ Len(zrtpIdOwn') = Len(zrtpIdOwn) + 1
                          /\ SubSeq(zrtpIdOwn', 1, Len(zrtpIdOwn)) = zrtpIdOwn
                          /\ OwnKeyOf(zrtpIdOwn'[Len(zrtpIdOwn')]) = key
                          /\ b64Decode(zrtpIdOwn'[Len(zrtpIdOwn')].localZid) = localZid'
              /\ n = 1 => /\ zrtpIdOwn' = zrtpIdOwn
                          /\ localZid' = b64Decode(OwnRows(zrtpIdOwn, key)[1].localZid)]_vars

C7_Witness ==
    /\ op.name = "readLocalZid"
    /\ op.account = "_STANDARD_"
    /\ rc = SQLITE_OK
    /\ Len(zrtpIdOwn) = 3
    /\ Len(drawn) = 3
    /\ OwnKeyOf(zrtpIdOwn[1]) = [type |-> 1, accountInfo |-> "_STANDARD_"]
    /\ localZid = b64Decode(zrtpIdOwn[1].localZid)
    /\ localZid = drawn[1]

\* C8 as stated: the identifier a readLocalZid call returns differs from the
\* identifier stored for every other account, whatever randomZRTP delivered.
C8_DistinctLabelsDistinctIds ==
    (op.name = "readLocalZid" /\ rc = SQLITE_OK)
    => \A i \in 1..Len(zrtpIdOwn) :
          OwnKeyOf(zrtpIdOwn[i]) # StandsFor(op.account)
          => b64Decode(zrtpIdOwn[i].localZid) # localZid

\* C8, amended: every row holds the value randomZRTP delivered for it, a call
\* returns the value delivered for its account, and the identifiers of two
\* accounts differ exactly when the values delivered for them differ.
C8_DistinctWhenRandomDistinct ==
    /\ Len(drawn) = Len(zrtpIdOwn)
    /\ \A i \in 1..Len(zrtpIdOwn) : b64Decode(zrtpIdOwn[i].localZid) = drawn[i]
    /\ (op.name = "readLocalZid" /\ rc = SQLITE_OK)
       => \E i \in 1..Len(zrtpIdOwn) :
             /\ OwnKeyOf(zrtpIdOwn[i]) = StandsFor(op.account)
             /\ localZid = drawn[i]
             /\ \A j \in 1..Len(zrtpIdOwn) :
                   (b64Decode(zrtpIdOwn[j].localZid) # localZid) <=> (drawn[j] # drawn[i])

C8_Witness ==
    /\ op.name = "readLocalZid"
    /\ op.account = "bob"
    /\ rc = SQLITE_OK
    /\ Len(zrtpIdOwn) = 2
    /\ drawn[1] # drawn[2]
    /\ zrtpIdOwn[1].accountInfo = "alice"
    /\ localZid = drawn[2]
    /\ localZid # b64Decode(zrtpIdOwn[1].localZid)

(***************************************************************************)
(* Properties of concurrent callers                                        *)
(***************************************************************************)
\* C5: however the readLocalZid calls of several threads interleave,
\* zrtpIdOwn holds at most one row for a (type, accountInfo) pair and no
\* call returns the 'cache inconsistent' error.
C5_OneLocalZidPerAccount ==
    /\ \A accountInfo \in ConcAccounts :
          Len(OwnRows(zrtpIdOwn, StandsFor(accountInfo))) <= 1
    /\ \A t \in 1..NumThreads : thr[t].rc # CACHE_INCONSISTENT

\* C6: when several threads read a key, see flags = 0 and then insert,
\* zrtpIdRemote holds at most one row for the key in every reachable state.
C6_OneRemoteRowPerKey ==
    \A key \in ConcKeys : Count(zrtpIdRemote, key[1], key[2]) <= 1

(***************************************************************************)
(* Properties of the enumeration                                           *)
(***************************************************************************)
\* the record a caller passed to insertRemoteZidRecord for a row it reads back
Supplied(r) == CHOOSE s \in {ins[3] : ins \in CursorInserts} : s.flags = r.flags

\* C9: the records one cursor returns have non-increasing secureSince, they
\* come in non-increasing order of the secureSince their rows were inserted
\* with, and on an empty table the first readNextZidRecord returns null.
C9_EnumerationDescending ==
    /\ \A i, j \in 1..Len(log) :
          i < j => /\ log[i].secureSince >= log[j].secureSince
                   /\ Supplied(log[i]).secureSince >= Supplied(log[j]).secureSince
    /\ (stmt.state = "done" /\ stmt.base = <<>>) => (log = <<>> /\ vstmt = FALSE)

\* what the enumeration returns for a row, apart from the identifier
EnumeratedFields(row) == FetchRemoteColumns(ZeroRecord, RemoteColumns(row))

\* the records are those of the rows, each row taken once, the identifier
\* being the remote ZID whose text the row holds
EnumeratesOnce(records, table) ==
    \E p \in Permutations(1..Len(table)) :
        \A i \in 1..Len(records) :
            /\ StoredFields(records[i]) = EnumeratedFields(table[p[i]])
            /\ \E ins \in CursorInserts : table[p[i]].remoteZid = b64Encode(ins[1])
            /\ \A ins \in CursorInserts :
                  table[p[i]].remoteZid = b64Encode(ins[1])
                  => records[i].identifier = ins[1]

\* C10: while no row is written during the iteration, the cursor has
\* returned distinct rows of the table, each with the remote ZID of its row;
\* a call that has returned fewer than all the rows returns one more, the
\* call after the last row returns null, and then every row of the table has
\* been returned exactly once.
C10_EnumerationComplete ==
    /\ [](((stmt.state \in {"rows", "done"}) /\ zrtpIdRemote = stmt.base)
          => /\ Len(log) <= Len(zrtpIdRemote)
             /\ Len(log) + Len(stmt.rows) = Len(zrtpIdRemote)
             /\ EnumeratesOnce(log, zrtpIdRemote)
             /\ stmt.state = "done" => (Len(log) = Len(zrtpIdRemote) /\ vstmt = FALSE))
    /\ [][(/\ CallOf("readNextZidRecord")
            /\ vstmt
            /\ stmt.state = "rows"
            /\ zrtpIdRemote = stmt.base)
           => IF Len(log) < Len(zrtpIdRemote)
              THEN vstmt' /\ Len(log') = Len(log) + 1
              ELSE ~vstmt' /\ stmt'.state = "done" /\ log' = log]_vars

C10_Witness ==
    /\ op.name = "readNextZidRecord"
    /\ stmt.state = "done"
    /\ vstmt = FALSE
    /\ zrtpIdRemote = stmt.base
    /\ Len(zrtpIdRemote) = 3
    /\ Len(log) = 3
    /\ zrtpIdRemote[1] = zrtpIdRemote[2]
    /\ zrtpIdRemote[3].localZid # zrtpIdRemote[1].localZid
    /\ log[1].identifier # log[3].identifier

(***************************************************************************)
(* Properties of the name store                                            *)
(***************************************************************************)
\* the rows of a table stored under the key (remoteZid, localZid, accountInfo)
NameRowsOf(table, key) ==
    SelectSeq(table, LAMBDA row :
        NameKeyMatch(row, b64Encode(key[1]), b64Encode(key[2]),
                     IF key[3] = NullAccount THEN "_STANDARD_" ELSE key[3]))

NameCount(table, key) == Len(NameRowsOf(table, key))

\* what readZidNameRecord returns for a key on a table
NameReadBack(table, key) == readZidNameRecord(table, key[1], key[2], key[3], ZeroName)

\* the key of the call that returned last
OpNameKey(o) == <<o.remoteZid, o.localZid, o.account>>

\* the rows of the table after a write that the write stored or changed
WrittenRows(old, new) ==
    {i \in 1..Len(new) : i > Len(old) \/ new[i] # old[i]}

\* C16: insertZidNameRecord and updateZidNameRecord store the clock's value
\* at the call as lastUpdate, whatever the caller's record holds; every
\* stored lastUpdate is a value the clock has shown, and the value a write
\* stores is no smaller than any value stored before it.
C16_LastUpdateIsClock ==
    /\ [](\A i \in 1..Len(zrtpNames) :
            /\ zrtpNames[i].lastUpdate.k = "int"
            /\ zrtpNames[i].lastUpdate.v >= ClockStart
            /\ zrtpNames[i].lastUpdate.v <= clock)
    /\ [][(CallOf("insertZidNameRecord") \/ CallOf("updateZidNameRecord"))
          => /\ \A j \in WrittenRows(zrtpNames, zrtpNames') :
                   /\ zrtpNames'[j].lastUpdate = SqlInt(clock)
                   /\ \A i \in 1..Len(zrtpNames) :
                         zrtpNames[i].lastUpdate.v <= zrtpNames'[j].lastUpdate.v
             /\ CallOf("insertZidNameRecord")
                   => WrittenRows(zrtpNames, zrtpNames') = {Len(zrtpNames) + 1}
             /\ CallOf("updateZidNameRecord")
                   => \A j \in 1..Len(zrtpNames) :
                         NameKeyMatch(zrtpNames[j], b64Encode(op'.remoteZid),
                                      b64Encode(op'.localZid), NameAccount(op'.account))
                         => zrtpNames'[j].lastUpdate = SqlInt(clock)]_vars

C16_Witness ==
    /\ op.name = "updateZidNameRecord"
    /\ rc = SQLITE_OK
    /\ Len(zrtpNames) = 2
    /\ zidName.lastUpdateTime # clock
    /\ zrtpNames[1].lastUpdate = SqlInt(clock)
    /\ zrtpNames[2].lastUpdate.v < clock

\* C17: a write of the name store with a null name stores the text
\* "_NO_NAME_", and no row of zrtpNames ever holds NULL as its name.
C17_NullNameStoredAsSentinel ==
    /\ [](\A i \in 1..Len(zrtpNames) : zrtpNames[i].name.k = "text")
    /\ [][/\ (CallOf("insertZidNameRecord") /\ zidName'.name.null)
             => /\ Len(zrtpNames') = Len(zrtpNames) + 1
                /\ zrtpNames'[Len(zrtpNames')].name = SqlText(NoNameText)
          /\ (CallOf("updateZidNameRecord") /\ zidName'.name.null)
             => /\ Len(zrtpNames') = Len(zrtpNames)
                /\ \A j \in 1..Len(zrtpNames) :
                      NameKeyMatch(zrtpNames[j], b64Encode(op'.remoteZid),
                                   b64Encode(op'.localZid), NameAccount(op'.account))
                      => zrtpNames'[j].name = SqlText(NoNameText)]_vars

C17_Witness ==
    /\ op.name = "updateZidNameRecord"
    /\ zidName.name.null
    /\ NameCount(zrtpNames, OpNameKey(op)) = 1
    /\ NameRowsOf(zrtpNames, OpNameKey(op))[1].name = SqlText(NoNameText)
    /\ \E i \in 1..Len(zrtpNames) : zrtpNames[i].name = SqlText(<<"A", "l">>)

\* C18: updateRemoteZidRecord and updateZidNameRecord on a key without a row
\* return SQLITE_OK and leave their table as it was, so a read of the key
\* returns SQLITE_OK and flags = 0 after the update as before it.
C18_UpdateOfAbsentKeyIsNoOp ==
    [][/\ (/\ CallOf("updateRemoteZidRecord")
           /\ Count(zrtpIdRemote, op'.remoteZid, op'.localZid) = 0)
          => (/\ rc' = SQLITE_OK
              /\ zrtpIdRemote' = zrtpIdRemote
              /\ zrtpNames' = zrtpNames
              /\ ReadBack(zrtpIdRemote', <<op'.remoteZid, op'.localZid>>).rc = SQLITE_OK
              /\ ReadBack(zrtpIdRemote', <<op'.remoteZid, op'.localZid>>).remZid.flags = 0)
       /\ (/\ CallOf("updateZidNameRecord")
           /\ NameCount(zrtpNames, OpNameKey(op')) = 0)
          => (/\ rc' = SQLITE_OK
              /\ zrtpNames' = zrtpNames
              /\ zrtpIdRemote' = zrtpIdRemote
              /\ NameReadBack(zrtpNames', OpNameKey(op')).rc = SQLITE_OK
              /\ NameReadBack(zrtpNames', OpNameKey(op')).zidName.flags = 0)]_vars

C18_Witness ==
    /\ op.name = "updateZidNameRecord"
    /\ rc = SQLITE_OK
    /\ NameCount(zrtpNames, OpNameKey(op)) = 0
    /\ Len(zrtpNames) = 2
    /\ Len(zrtpIdRemote) = 1
    /\ Count(zrtpIdRemote, ZidB, ZidL) = 0
    /\ zrtpIdRemote[1].flags = SqlInt(RecA.flags)

(***************************************************************************)
(* Properties of the handlers on a failing engine                          *)
(***************************************************************************)
WritingHandlers == {"insertRemoteZidRecord", "updateRemoteZidRecord",
                    "insertZidNameRecord", "updateZidNameRecord", "readLocalZid"}

\* C19: when the engine rejects a prepare, a bind or the step of a writing
\* handler, the handler returns the engine's code, which is not SQLITE_OK,
\* and the three tables hold the rows they held before the call; when it
\* rejects nothing, the handler returns SQLITE_OK or the consistency error.
C19_RejectedWriteChangesNothing ==
    [][\A name \in WritingHandlers :
          CallOf(name)
          => /\ fault'.at # "none"
                => /\ rc' = fault'.code
                   /\ rc' # SQLITE_OK
                   /\ zrtpIdOwn' = zrtpIdOwn
                   /\ zrtpIdRemote' = zrtpIdRemote
                   /\ zrtpNames' = zrtpNames
             /\ fault'.at = "none" => rc' \in {SQLITE_OK, CACHE_INCONSISTENT}]_vars

C19_Witness ==
    /\ op.name = "readLocalZid"
    /\ fault.at = "step"
    /\ rc = SQLITE_BUSY
    /\ Len(zrtpIdOwn) = 1
    /\ OwnKeyOf(zrtpIdOwn[1]) # StandsFor(op.account)
    /\ localZid = drawn[Len(drawn)]
    /\ Len(drawn) = 2
    /\ Len(zrtpIdRemote) = 1
    /\ Len(zrtpNames) = 1

(***************************************************************************)
(* Properties of the encoding layer                                        *)
(***************************************************************************)
\* C20: the text of an identifier has 16 characters of the alphabet and is
\* the same whenever the identifier is encoded; decoding the text gives the
\* identifier back; two identifiers have the same text exactly when they are
\* equal, so a row inserted under one is found under the other exactly then.
C20_Base64RoundTrip ==
    /\ codec.b64x # <<>>
       => /\ Len(codec.b64x) = 16
          /\ \A i \in 1..16 : \E c \in 1..64 : B64Alphabet[c] = codec.b64x[i]
          /\ codec.b64x = b64Encode(codec.x)
          /\ (codec.b64x = codec.b64y) <=> (codec.x = codec.y)
          /\ Count(insertRemoteZidRecord(<<>>, codec.x, ZidL, RecA).table, codec.y, ZidL)
                = IF codec.x = codec.y THEN 1 ELSE 0
          /\ Count(insertRemoteZidRecord(<<>>, ZidA, codec.x, RecA).table, ZidA, codec.y)
                = IF codec.x = codec.y THEN 1 ELSE 0
    /\ codec.binx # <<>>
       => /\ codec.binx = codec.x
          /\ codec.biny = codec.y

C20_Witness ==
    /\ codec.binx = codec.x
    /\ codec.biny = codec.y
    /\ codec.x[IDENTIFIER_LEN] = 255
    /\ codec.x[IDENTIFIER_LEN - 1] = 3
    /\ codec.y[IDENTIFIER_LEN] = 0
    /\ codec.b64x # codec.b64y
    /\ SubSeq(codec.b64x, 1, 12) = SubSeq(codec.b64y, 1, 12)

(***************************************************************************)
(* Claims on the enumeration with a null or finalized handle               *)
(***************************************************************************)
\* C11: readNextZidRecord with a null handle or with the handle of a
\* finalized statement returns null, leaves the caller's record, the statement
\* and the tables as they were and does not fail; closeStatement with a null
\* handle changes nothing.
C11_ClosedCursorReadsEnd ==
    [][/\ (CallOf("readNextZidRecord") /\ vstmt = FALSE) =>
              /\ vstmt' = FALSE
              /\ remZid' = remZid
              /\ stmt' = stmt
              /\ db' = db
              /\ <<zrtpIdOwn, zrtpIdRemote, zrtpNames>>' = <<zrtpIdOwn, zrtpIdRemote, zrtpNames>>
       /\ (CallOf("closeStatement") /\ vstmt = FALSE) =>
              /\ vstmt' = FALSE
              /\ remZid' = remZid
              /\ stmt' = stmt
              /\ db' = db
              /\ <<zrtpIdOwn, zrtpIdRemote, zrtpNames>>' = <<zrtpIdOwn, zrtpIdRemote, zrtpNames>>
      ]_vars

\* C22: a readNextZidRecord whose sqlite3_step the engine rejected does not
\* look to its caller like the end of the enumeration (nullptr returned,
\* record and error text left as they were): it returns the handle, or
\* changes the record, or writes an error text.
C22_StepErrorSurfaced ==
    [][(CallOf("readNextZidRecord") /\ fault'.at = "step") =>
          ~(vstmt' = FALSE /\ remZid' = remZid /\ errString' = errString)]_vars

(***************************************************************************)
(* Claims on the key of the name store                                     *)
(***************************************************************************)
\* the label a name call addresses: "_STANDARD_" for a null pointer
Label(accountInfo) == IF accountInfo = NullAccount THEN "_STANDARD_" ELSE accountInfo

\* the rows stored for a triple
TripleRows(table, remoteZid, localZidArg, accountInfo) ==
    SelectSeq(table, LAMBDA row : /\ row.remoteZid = b64Encode(remoteZid)
                                  /\ row.localZid = b64Encode(localZidArg)
                                  /\ row.accountInfo = Label(accountInfo))

\* this step is a readZidNameRecord of the triple of the call before it
ReadsTripleOfLastCall ==
    /\ CallOf("readZidNameRecord")
    /\ op'.remoteZid = op.remoteZid
    /\ op'.localZid = op.localZid
    /\ Label(op'.account) = Label(op.account)

\* what holds of every readZidNameRecord whatever was written: a triple
\* without a row reads SQLITE_OK with flags = 0, a triple with two or more
\* rows reads 1, and a null accountInfo reads what "_STANDARD_" reads
TripleIsKey ==
    CallOf("readZidNameRecord") =>
       LET n == Len(TripleRows(zrtpNames, op'.remoteZid, op'.localZid, op'.account))
       IN /\ n = 0 => (rc' = SQLITE_OK /\ zidName'.flags = 0)
          /\ n > 1 => rc' = CACHE_INCONSISTENT
          /\ \A key \in NameKeyReads :
                NameReadBack(zrtpNames, <<key[1], key[2], NullAccount>>)
                   = NameReadBack(zrtpNames, <<key[1], key[2], defaultAccountString>>)

\* an insertZidNameRecord has just stored the only row of its triple
InsertedFirstRow ==
    /\ op.name = "insertZidNameRecord"
    /\ rc = SQLITE_OK
    /\ Len(TripleRows(zrtpNames, op.remoteZid, op.localZid, op.account)) = 1

\* C25: name records are keyed by (remoteZid, localZid, accountInfo): after
\* an insertZidNameRecord on a triple without a row, readZidNameRecord of
\* the triple returns SQLITE_OK with the flags and the name written; a triple
\* without a row reads flags = 0, a null accountInfo addresses the record of
\* "_STANDARD_", and two rows for a triple make the read return 1.
C25_NameKeyedByTriple ==
    [][/\ TripleIsKey
       /\ (InsertedFirstRow /\ ReadsTripleOfLastCall) =>
              /\ rc' = SQLITE_OK
              /\ zidName'.flags = zidName.flags
              /\ zidName'.name = zidName.name]_vars

\* C25, amended: the same, but the name returned is the text stored, cut to
\* the nameLength characters of the reader's buffer: the name written, or
\* "_NO_NAME_" when the name written was a null pointer; nameLength returns
\* the length of the text stored.
C25_NameKeyedByTripleStoredText ==
    [][/\ TripleIsKey
       /\ (InsertedFirstRow /\ ReadsTripleOfLastCall) =>
              LET text == IF zidName.name.null THEN NoNameText ELSE zidName.name.chars
                  kept == IF Len(text) < ZeroName.nameLength THEN Len(text)
                          ELSE ZeroName.nameLength
              IN /\ rc' = SQLITE_OK
                 /\ zidName'.flags = zidName.flags
                 /\ zidName'.name = Name(SubSeq(text, 1, kept))
                 /\ zidName'.nameLength = Len(text)]_vars

\* a name longer than the reader's buffer has been inserted under "alice"
\* and read back cut, beside two rows under the default account
C25_Witness ==
    /\ op.name = "readZidNameRecord"
    /\ op.account = "alice"
    /\ rc = SQLITE_OK
    /\ zidName.flags = NameLong.flags
    /\ zidName.name = Name(<<"A", "l", "i", "c">>)
    /\ zidName.nameLength = 5
    /\ Len(TripleRows(zrtpNames, ZidA, ZidL, "alice")) = 1

(***************************************************************************)
(* Claims on the life of a cache                                           *)
(***************************************************************************)
\* the account key of the call that returns in this step
OwnKeyOfCall == LocalZidKey(op'.account)

\* C12: when clearCache returns SQLITE_OK the three tables exist and
\* zrtpIdRemote and zrtpNames hold no row: readRemoteZidRecord of every peer
\* key inserted before the reset returns SQLITE_OK with flags = 0, and
\* readZidNameRecord of every name key inserted before it returns flags = 0.
C12_ClearCacheEmptiesPeerTables ==
    [][(CallOf("clearCache") /\ rc' = SQLITE_OK) =>
          /\ schema' = AllTables
          /\ zrtpIdRemote' = <<>>
          /\ zrtpNames' = <<>>
          /\ \A key \in past.peerKeys :
                /\ ReadBack(zrtpIdRemote', key).rc = SQLITE_OK
                /\ ReadBack(zrtpIdRemote', key).remZid.flags = 0
          /\ \A key \in past.nameKeys :
                /\ NameReadBack(zrtpNames', key).rc = SQLITE_OK
                /\ NameReadBack(zrtpNames', key).zidName.flags = 0]_vars

\* clearCache has returned SQLITE_OK on a cache that held a peer row and a
\* name row
C12_Witness ==
    /\ op.name = "clearCache"
    /\ rc = SQLITE_OK
    /\ past.peerKeysAtReset = {<<ZidA, ZidL>>}
    /\ past.nameKeysAtReset = {<<ZidA, ZidL, "alice">>}
    /\ zrtpIdRemote = <<>>
    /\ zrtpNames = <<>>

\* C13: after clearCache returned SQLITE_OK, the first readLocalZid for an
\* account that was resolved before the reset finds no row, inserts one row
\* and returns an identifier different from the one returned before the reset.
C13_NewIdentifierAfterReset ==
    [][(/\ CallOf("readLocalZid")
        /\ rc' = SQLITE_OK
        /\ past.zidsAtReset[OwnKeyOfCall] # ZidZero
        /\ past.zids[OwnKeyOfCall] = ZidZero) =>
          /\ OwnRows(zrtpIdOwn, OwnKeyOfCall) = <<>>
          /\ Len(zrtpIdOwn') = Len(zrtpIdOwn) + 1
          /\ localZid' # past.zidsAtReset[OwnKeyOfCall]]_vars

\* C13, amended: that call, when the engine rejects nothing and zrtpIdOwn
\* exists, finds no row, inserts one row holding the value randomZRTP
\* delivers and returns that value; it differs from the identifier returned
\* before the reset exactly when randomZRTP delivers a value different from
\* the one it delivered then.
C13_NewIdentifierWhenRandomDiffers ==
    [][(/\ CallOf("readLocalZid")
        /\ fault'.at = "none"
        /\ past.zidsAtReset[OwnKeyOfCall] # ZidZero
        /\ past.zids[OwnKeyOfCall] = ZidZero) =>
          /\ rc' = SQLITE_OK
          /\ OwnRows(zrtpIdOwn, OwnKeyOfCall) = <<>>
          /\ Len(zrtpIdOwn') = Len(zrtpIdOwn) + 1
          /\ Len(OwnRows(zrtpIdOwn', OwnKeyOfCall)) = 1
          /\ b64Decode(OwnRows(zrtpIdOwn', OwnKeyOfCall)[1].localZid) = localZid'
          /\ Len(drawn') = Len(drawn) + 1
          /\ localZid' = drawn'[Len(drawn')]
          /\ \E i \in 1..Len(drawn) :
                /\ drawn[i] = past.zidsAtReset[OwnKeyOfCall]
                /\ (localZid' # past.zidsAtReset[OwnKeyOfCall])
                       <=> (drawn'[Len(drawn')] # drawn[i])]_vars

\* readLocalZid has returned a new identifier for an account resolved before
\* the reset
C13_Witness ==
    /\ op.name = "readLocalZid"
    /\ rc = SQLITE_OK
    /\ past.zidsAtReset[LocalZidKey(op.account)] = ZidL
    /\ past.zids[LocalZidKey(op.account)] = ZidM
    /\ localZid = ZidM
    /\ drawn = <<ZidL, ZidM>>
    /\ Len(zrtpIdOwn) = 1

\* the three tables hold the same rows and read back the same
SameRows ==
    /\ zrtpIdOwn' = zrtpIdOwn
    /\ zrtpIdRemote' = zrtpIdRemote
    /\ zrtpNames' = zrtpNames
    /\ \A key \in past.peerKeys : ReadBack(zrtpIdRemote', key) = ReadBack(zrtpIdRemote, key)
    /\ \A key \in past.nameKeys : NameReadBack(zrtpNames', key) = NameReadBack(zrtpNames, key)

\* C14: openCache on a database holding zrtpIdOwn creates and drops no table
\* and changes no row, and returns SQLITE_OK unless the engine rejects the
\* open or the lookup; closeCache changes no table and no row: the rows
\* written before closeCache read back unchanged after the next openCache.
C14_ReopenKeepsRows ==
    [][/\ (CallOf("openCache") /\ "zrtpIdOwn" \in schema) =>
              /\ schema' = schema
              /\ SameRows
              /\ fault'.at = "none" => (rc' = SQLITE_OK /\ db' = "open")
       /\ CallOf("closeCache") => (schema' = schema /\ SameRows)]_vars

\* a cache with a row in each table has been closed and opened again
C14_Witness ==
    /\ op.name = "openCache"
    /\ rc = SQLITE_OK
    /\ db = "open"
    /\ schema = AllTables
    /\ Len(zrtpIdOwn) = 1
    /\ Len(zrtpIdRemote) = 1
    /\ Len(zrtpNames) = 1
    /\ past.peerKeys # {}
    /\ past.nameKeys # {}

\* C15: an openCache that returns SQLITE_OK leaves zrtpIdOwn, zrtpIdRemote
\* and zrtpNames present, also after an earlier openCache on the same
\* database failed between creating zrtpIdOwn and creating the other two.
C15_BootstrapIdempotent ==
    (op.name = "openCache" /\ rc = SQLITE_OK) => schema = AllTables
\* C24: when openCache on a database without zrtpIdOwn returns SQLITE_OK,
\* the three tables exist and hold no row, whichever of zrtpIdRemote and
\* zrtpNames existed before and whatever rows they held; a drop that fails
\* because its table does not exist stops nothing.
C24_ColdStartCreatesEmptyTables ==
    [][(CallOf("openCache") /\ "zrtpIdOwn" \notin schema) =>
          /\ rc' = SQLITE_OK =>
                /\ schema' = AllTables
                /\ zrtpIdOwn' = <<>>
                /\ zrtpIdRemote' = <<>>
                /\ zrtpNames' = <<>>
                /\ db' = "open"
          /\ (fault'.at = "none" /\ schema = {}) => rc' = SQLITE_OK]_vars

\* openCache has returned SQLITE_OK on a database without zrtpIdOwn in which
\* a peer row, a name row and a local identifier had been stored since the
\* last clearCache that returned SQLITE_OK (a clearCache that failed after
\* dropping zrtpIdOwn leaves such a database)
C24_Witness ==
    /\ op.name = "openCache"
    /\ rc = SQLITE_OK
    /\ schema = AllTables
    /\ past.peerKeys = {<<ZidA, ZidL>>}
    /\ past.nameKeys = {<<ZidA, ZidL, "alice">>}
    /\ past.zids[LocalZidKey("alice")] = ZidL
    /\ zrtpIdOwn = <<>>
    /\ zrtpIdRemote = <<>>
    /\ zrtpNames = <<>>
\* C21: closeCache returns SQLITE_OK whenever it is called on an open cache,
\* also while a statement of prepareReadAllZid is not finalized and the
\* engine refuses to close, and writes no error text.
C21_CloseCacheAlwaysOk ==
    [][CallOf("closeCache") => (rc' = SQLITE_OK /\ errString' = errString)]_vars

\* closeCache has returned SQLITE_OK although the engine refused, with a
\* statement that has returned a row and is not finalized
C21_Witness ==
    /\ op.name = "closeCache"
    /\ rc = SQLITE_OK
    /\ fault = [at |-> "sqlite3_close", code |-> SQLITE_BUSY]
    /\ stmt.state = "rows"
    /\ vstmt = TRUE
    /\ db = "leaked"
(***************************************************************************)
(* Claims on what the reading operations leave alone                       *)
(***************************************************************************)
\* the operations that only read
ReadCalls == {"readRemoteZidRecord", "readZidNameRecord", "prepareReadAllZid",
              "readNextZidRecord"}

\* the tables of the database and their rows
Stored == <<schema, zrtpIdOwn, zrtpIdRemote, zrtpNames>>

\* this step is a call that only reads: one of ReadCalls, or a readLocalZid
\* that finds one or more rows for its label
ReadStep ==
    \/ \E name \in ReadCalls : CallOf(name)
    \/ /\ CallOf("readLocalZid")
       /\ "zrtpIdOwn" \in schema
       /\ Len(OwnRows(zrtpIdOwn, StandsFor(op'.account))) >= 1

\* every key stored more than once before this step is stored more than
\* once after it, and a read of it in this step reports the inconsistency
KeepsDuplicates ==
    /\ \A key \in Keys :
          Count(zrtpIdRemote, key[1], key[2]) > 1
          => /\ Count(zrtpIdRemote', key[1], key[2]) > 1
             /\ (CallOf("readRemoteZidRecord") /\ op'.remoteZid = key[1]
                    /\ op'.localZid = key[2])
                => rc' = CACHE_INCONSISTENT
    /\ \A key \in NameKeys :
          Len(TripleRows(zrtpNames, key[1], key[2], key[3])) > 1
          => /\ Len(TripleRows(zrtpNames', key[1], key[2], key[3])) > 1
             /\ (CallOf("readZidNameRecord") /\ OpNameKey(op') = key)
                => rc' = CACHE_INCONSISTENT
    /\ \A accountInfo \in Accounts :
          Len(OwnRows(zrtpIdOwn, StandsFor(accountInfo))) > 1
          => /\ Len(OwnRows(zrtpIdOwn', StandsFor(accountInfo))) > 1
             /\ (CallOf("readLocalZid") /\ op'.account = accountInfo)
                => rc' = CACHE_INCONSISTENT

\* this step is an openCache on a database without the table zrtpIdOwn
ColdOpen == CallOf("openCache") /\ "zrtpIdOwn" \notin schema

\* C26: readRemoteZidRecord, readZidNameRecord, prepareReadAllZid,
\* readNextZidRecord, and readLocalZid when it finds one or more rows, leave
\* the tables and their rows as they were; and over every step that is not a
\* clearCache a key stored more than once stays stored more than once, and
\* a read of it returns CACHE_INCONSISTENT.
C26_ReadsChangeNoRows ==
    [][/\ ReadStep => Stored' = Stored
       /\ ~CallOf("clearCache") => KeepsDuplicates]_vars

\* C26 as the code has it: the same, over every step that is neither a
\* clearCache nor an openCache that finds no zrtpIdOwn table; such an
\* openCache drops zrtpIdRemote and zrtpNames with the rows they hold.
C26_ReadsChangeNoRowsUntilReset ==
    [][/\ ReadStep => Stored' = Stored
       /\ (~CallOf("clearCache") /\ ~ColdOpen) => KeepsDuplicates]_vars

\* a read has reported the peer key inconsistent, on rows stored after a
\* clearCache that left the database without zrtpIdOwn
C26_Witness ==
    /\ op.name = "readRemoteZidRecord"
    /\ rc = CACHE_INCONSISTENT
    /\ Count(zrtpIdRemote, ZidA, ZidL) = 2
    /\ "zrtpIdOwn" \notin schema
    /\ db = "open"

(***************************************************************************)
(* Claims on the prepared statements                                       *)
(***************************************************************************)
\* a statement of prepareReadAllZid that is prepared and not finalized
LiveStates == {"prepared", "rows"}

\* a statement readNextZidRecord or closeStatement has finalized
FinalizedStates == {"done", "closed"}

\* C23: every statement a keyed handler prepares has been finalized exactly
\* once when the handler returns, on every return path.  The caller holds a
\* handle exactly while the statement of prepareReadAllZid is not finalized;
\* the statement is finalized by the readNextZidRecord that returns null or
\* by closeStatement, and once finalized it is not finalized again.
C23_StatementsFinalizedOnce ==
    [][/\ \A k \in 1..Len(frame'.finalized) : frame'.finalized[k] = 1
       /\ vstmt' <=> stmt'.state \in LiveStates
       /\ (stmt.state \in LiveStates /\ stmt'.state \notin LiveStates)
          => /\ stmt'.state \in FinalizedStates
             /\ \/ CallOf("readNextZidRecord") /\ vstmt' = FALSE
                \/ CallOf("closeStatement")
       /\ stmt.state \in FinalizedStates
          => stmt' = stmt \/ CallOf("prepareReadAllZid")]_vars

\* readLocalZid has returned an engine error from its insert with the select
\* and the insert finalized once each, and an enumeration of two rows has
\* ended with the null return that finalized its statement
C23_Witness ==
    /\ frame.handler = "readLocalZid"
    /\ frame.path = "engine error"
    /\ frame.finalized = <<1, 1>>
    /\ op.name = "readNextZidRecord"
    /\ Len(log) = 2
    /\ stmt.state = "done"
    /\ vstmt = FALSE

====
